---- MODULE Spec2Model ----
(***************************************************************************)
(* Device discovery engine of q8-caster (src/network/discovery.rs).        *)
(*                                                                         *)
(* The coordinator (DeviceDiscovery) owns a registry `devices`, an         *)
(* optional mDNS daemon handle, the running flag and the handles of the    *)
(* tasks it spawned.  Each spawned task (mDNS watcher, SSDP poller,        *)
(* reaper) is a process with a program counter.  Tasks run on the          *)
(* multi-threaded tokio runtime (#[tokio::main]), so the synchronous       *)
(* sections of different tasks interleave at the granularity of the        *)
(* registry's per-key operations (get_mut, insert, remove).                *)
(*                                                                         *)
(* Time is in milliseconds.  Records are stamped from the wall clock        *)
(* (Utc::now), which moves at any moment, also while a task is between two *)
(* of its steps, and which can be set back; the intervals run on the       *)
(* monotonic clock, and a tick is taken at its deadline or later.          *)
(***************************************************************************)
EXTENDS Integers, Sequences, FiniteSets, TLC

VARIABLES
    devices,            \* DeviceDiscovery.devices : id -> DiscoveredDevice
    mdns,               \* DeviceDiscovery.mdns : 0 (None) or the daemon's number
    discovery_running,  \* DeviceDiscovery.discovery_running
    tasks,              \* DeviceDiscovery.tasks : sequence of task handles
    procs,              \* the spawned tasks that have not ended or whose handle
                        \* is still held; a handle is an index into procs
    now,                \* Utc::now(), milliseconds
    mono,               \* tokio::time::Instant::now(), milliseconds
    steady,             \* history: so far the wall clock kept step with the
                        \* monotonic one and moved only while every task was
                        \* suspended with no tick overdue
    ret,                \* what the last Start/Stop call returned
    starts,             \* number of Start calls made
    adverts,            \* number of advertisements taken in so far
    memory_cache,       \* ContentCache.memory_cache : the LRU, least recent first
    disk_cache,         \* ContentCache.disk_cache : key -> path of the data file
    current_size,       \* ContentCache.current_size
    files,              \* the files of ContentCache.cache_dir : path -> contents
    calls,              \* the store calls in flight, by caller
    cache_ret,          \* what the last completed cache call returned
    held,               \* the ids the store calls returned, with what was stored
    next_id             \* number of ids drawn so far (Uuid::new_v4)

cache_vars ==
    <<memory_cache, disk_cache, current_size, files, calls, cache_ret, held, next_id>>

vars ==
    <<devices, mdns, discovery_running, tasks, procs, now, mono, steady, ret,
      starts, adverts,
      memory_cache, disk_cache, current_size, files, calls, cache_ret, held, next_id>>

(***************************************************************************)
(* Bounds of the model.                                                    *)
(***************************************************************************)
MaxStarts == 2          \* Start calls
MaxLiveAdverts == 1     \* advertisements taken in under SpecLive
MaxAdverts == 2         \* advertisements (resolutions with an address, usable
                        \* SSDP responses) the tasks take in
MaxSweeps == 12         \* the fine clock runs up to MaxSweeps reaper periods

(***************************************************************************)
(* Program constants.                                                      *)
(***************************************************************************)
StaleTimeoutSecs == 300     \* cleanup_stale_devices: Duration::from_secs(300)
SweepIntervalSecs == 30     \* cleanup_stale_devices: interval(from_secs(30))
PollIntervalSecs == 60      \* discover_upnp_devices: interval(from_secs(60))
MsPerSec == 1000            \* chrono: Duration::num_seconds truncates ms

(***************************************************************************)
(* DeviceType                                                              *)
(***************************************************************************)
Chromecast == <<"Chromecast">>
FireTv == <<"FireTv">>
AirPlay == <<"AirPlay">>
Dlna == <<"Dlna">>
Upnp == <<"Upnp">>
Miracast == <<"Miracast">>
Custom(s) == <<"Custom", s>>

from_service_type(service_type) ==
    CASE service_type = "_googlecast._tcp.local." -> Chromecast
      [] service_type = "_airplay._tcp.local." -> AirPlay
      [] service_type = "_dlna._tcp.local." -> Dlna
      [] service_type = "_dial._tcp.local." -> FireTv
      [] OTHER -> Custom(service_type)

to_mdns_service(self) ==
    CASE self = Chromecast -> "_googlecast._tcp.local."
      [] self = AirPlay -> "_airplay._tcp.local."
      [] self = Dlna -> "_dlna._tcp.local."
      [] self = FireTv -> "_dial._tcp.local."
      [] self = Upnp -> "_upnp._tcp.local."
      [] self = Miracast -> "_miracast._tcp.local."
      [] OTHER -> self[2]

(***************************************************************************)
(* DeviceCapabilities                                                      *)
(***************************************************************************)
DefaultCapabilities ==
    [ can_video |-> TRUE, can_audio |-> TRUE, can_image |-> TRUE,
      can_mirror |-> FALSE,
      supported_codecs |-> <<"h264", "aac">>,
      max_resolution |-> <<"1080p">>,
      protocols |-> <<>> ]

\* the match on device_type in handle_mdns_events
MdnsCapabilities(device_type) ==
    CASE device_type = Chromecast ->
            [ can_video |-> TRUE, can_audio |-> TRUE, can_image |-> TRUE,
              can_mirror |-> TRUE,
              supported_codecs |-> <<"h264", "vp8", "vp9", "aac", "opus">>,
              max_resolution |-> <<"4K">>,
              protocols |-> <<"cast">> ]
      [] device_type = FireTv ->
            [ can_video |-> TRUE, can_audio |-> TRUE, can_image |-> TRUE,
              can_mirror |-> TRUE,
              supported_codecs |-> <<"h264", "h265", "aac">>,
              max_resolution |-> <<"4K">>,
              protocols |-> <<"dial", "miracast">> ]
      [] device_type = AirPlay ->
            [ can_video |-> TRUE, can_audio |-> TRUE, can_image |-> TRUE,
              can_mirror |-> TRUE,
              supported_codecs |-> <<"h264", "aac">>,
              max_resolution |-> <<"1080p">>,
              protocols |-> <<"airplay">> ]
      [] OTHER -> DefaultCapabilities

(***************************************************************************)
(* DiscoveredDevice                                                        *)
(***************************************************************************)
\* DiscoveredDevice::new: both timestamps are the same Utc::now()
NewDevice(id, name, device_type, ip, port) ==
    [ id |-> id, name |-> name, device_type |-> device_type,
      ip |-> ip, port |-> port,
      capabilities |-> DefaultCapabilities,
      discovered_at |-> now, last_seen |-> now,
      metadata |-> <<>> ]

\* update_last_seen gone wrong: the record is restamped as if new
update_last_seen_restamped(self) ==
    [self EXCEPT !.last_seen = now, !.discovered_at = now]

\* DiscoveredDevice::update_last_seen
update_last_seen(self) == [self EXCEPT !.last_seen = now]

\* chrono::Duration::num_seconds: whole seconds, truncated toward zero
num_seconds(ms) ==
    IF ms >= 0 THEN ms \div MsPerSec ELSE -((-ms) \div MsPerSec)

\* DiscoveredDevice::is_stale
is_stale(self, timeout) == num_seconds(now - self.last_seen) > timeout

(***************************************************************************)
(* The registry (DashMap<String, DiscoveredDevice>)                        *)
(***************************************************************************)
\* DashMap::insert: adds the entry or replaces the one under the same key
MapInsert(m, k, v) == [x \in (DOMAIN m) \cup {k} |-> IF x = k THEN v ELSE m[x]]

\* DashMap::remove
MapRemove(m, k) == [x \in (DOMAIN m) \ {k} |-> m[x]]

Range(s) == {s[i] : i \in DOMAIN s}

(***************************************************************************)
(* Inputs: what the network delivers, and what callers pass to Start.      *)
(***************************************************************************)
\* ServiceEvent::ServiceResolved(info): get_fullname, get_hostname,
\* get_port, get_addresses (a hash set) and get_properties (TXT records, in
\* order) of the resolved service
ResolvedEvents ==
    { [ kind |-> "resolved", fullname |-> "tv.", hostname |-> "livingroom",
        port |-> 8009, addresses |-> {"192.168.1.5"},
        properties |-> << <<"md", "Chromecast">> >> ],
      [ kind |-> "resolved", fullname |-> "tv.", hostname |-> "livingroom",
        port |-> 8009, addresses |-> {"192.168.1.6"},
        properties |-> << <<"md", "Other">>, <<"md", "Renamed">> >> ],
      [ kind |-> "resolved", fullname |-> "tv.", hostname |-> "livingroom",
        port |-> 8009, addresses |-> {},
        properties |-> << <<"md", "Chromecast">> >> ] }

\* the ServiceEvent variants that carry nothing the watcher uses
OtherEvents ==
    { [ kind |-> k, fullname |-> "tv.", hostname |-> "", port |-> 0,
        addresses |-> {}, properties |-> <<>> ] :
      k \in {"found", "removed", "search_started", "search_stopped"} }

ServiceEvents == ResolvedEvents \cup OtherEvents

NoEvent ==
    [ kind |-> "none", fullname |-> "", hostname |-> "", port |-> 0,
      addresses |-> {}, properties |-> <<>> ]

\* the device_types vectors passed to Start: Dlna brings an mDNS watcher and
\* the SSDP poller, the custom service a second record type
StartInputs ==
    { <<Dlna>>, <<Custom("_x._tcp.local.")>> }

(***************************************************************************)
(* Tasks.  pc is the place the task is at:                                 *)
(*   mdns   : check (running.read), recv (recv_async), lookup (get_mut),   *)
(*            stamp (DiscoveredDevice::new), insert                        *)
(*   ssdp   : loop (about to poll interval.tick), tick (suspended in it),  *)
(*            check (running.read), scan_root (ssdp::search),              *)
(*            root_next (responses.next), scan_renderer, renderer_next,    *)
(*            upsert (get_mut), insert                                     *)
(*   reaper : loop, tick, check (running.read), scan (devices.iter),       *)
(*            sweep (the removal loop)                                     *)
(*   done (returned), cancelled (aborted and dropped)                      *)
(***************************************************************************)
NoDevice == <<>>

NewProc(kind, device_type, pc) ==
    [ kind |-> kind, device_type |-> device_type, pc |-> pc,
      aborted |-> FALSE,
      ev |-> NoEvent,           \* mdns: the event being handled
      dev |-> NoDevice,         \* mdns/ssdp: the device built, not yet inserted
      stream |-> <<>>,          \* ssdp: the responses still to come
      discovered |-> <<>>,      \* ssdp: the scan's result still to upsert
      todo |-> {},              \* reaper: the entries devices.iter() set out on
      seen |-> {},              \* reaper: the entries it has visited
      to_remove |-> <<>>,       \* reaper: ids collected, not yet removed
      next_tick |-> mono,       \* ssdp/reaper: deadline of interval.tick()
      guard |-> FALSE ]         \* holds a read guard of discovery_running

\* a task that has ended keeps nothing but how it ended
Finish(p, how) ==
    [ p EXCEPT !.pc = how, !.ev = NoEvent, !.dev = NoDevice,
               !.stream = <<>>, !.discovered = <<>>, !.todo = {}, !.seen = {},
               !.to_remove = <<>>, !.next_tick = 0, !.guard = FALSE ]

Ended(p) == p.pc \in {"done", "cancelled"}

\* places where the task is suspended: it is not running on any worker
IdlePcs ==
    {"recv", "tick", "scan_root", "root_next", "scan_renderer", "renderer_next"}

Idle(p) == p.pc \in IdlePcs /\ ~p.aborted

\* a watcher spawned by a Start that went on to fail: it has not read the
\* flag yet.  Start held the write lock when it was spawned, so the task has
\* not been polled or is suspended in running.read().await
Unstarted(p) == p.kind = "mdns" /\ p.pc = "check" /\ ~p.aborted /\ ~p.guard

\* abort gone wrong: a task that is being polled is not marked
AbortSuspendedOnly(p) ==
    IF Ended(p) THEN p
    ELSE IF Idle(p) \/ Unstarted(p) THEN Finish(p, "cancelled")
    ELSE p

\* JoinHandle::abort: a suspended task is dropped without running again; a
\* task that is being polled keeps running until its next suspension
Abort(p) ==
    IF Ended(p) THEN p
    ELSE IF Idle(p) \/ Unstarted(p) THEN Finish(p, "cancelled")
    ELSE [p EXCEPT !.aborted = TRUE]

\* for handle in self.tasks.drain(..) { handle.abort(); }
AbortAll(ps, handles) ==
    [i \in DOMAIN ps |-> IF i \in Range(handles) THEN Abort(ps[i]) ELSE ps[i]]

\* the handles are dropped: of the tasks only those still running remain
Live(p) == ~Ended(p)
Detach(ps) == SelectSeq(ps, Live)

\* the task's await is not ready and the task yields: a task that has been
\* aborted is dropped there, any other is suspended in it.  An await that
\* is ready (a tick that is overdue, a lock that is free, an event that is
\* queued) does not yield, and the aborted task goes on
Suspend(p, pc) ==
    IF p.aborted THEN Finish(p, "cancelled") ELSE [p EXCEPT !.pc = pc]

\* `while *running.read().await {..}` and `if !*running.read().await {..}`:
\* the read guard is a temporary of the condition, so it is dropped before
\* the body runs.  Kept through the body, the guard would be held in the
\* waits of the body.
GuardKeptThroughBody == TRUE

GuardHeldInBody == FALSE

\* self.discovery_running.write().await is granted: no read guard is out
RunningLockFree == \A i \in DOMAIN procs : ~procs[i].guard

\* what a call returned: the call, and Ok(()) or Err(CasterError::Network(..))
Ok(op) == <<op, "ok">>
Err(op) == <<op, "err">>

\* the call has been made and has not returned: it is queued for the write
\* lock of discovery_running
Waiting(op) == <<op, "wait">>

\* running.read().await of task t is granted: the lock is fair, so a reader
\* that comes after a queued writer waits for it
ReadGranted(t) == procs[t].guard \/ ret # Waiting("stop")

(***************************************************************************)
(* Content cache of q8-caster (src/cache/mod.rs).                          *)
(*                                                                         *)
(* ContentCache keeps the most recent items in an in-memory LRU, every     *)
(* stored item in two files of its directory (the bytes, and the metadata  *)
(* as JSON), an index of the stored keys, and the tracked size.  Its       *)
(* methods take &self and lock each field on its own: the LRU and the size *)
(* each behind a mutex that is released before the next one is taken, the  *)
(* index a DashMap locked per key.  The callers run on the worker threads  *)
(* of the runtime, so calls on a shared cache interleave at every          *)
(* acquisition of a lock and at every await on a file.  A call is a        *)
(* process with a program counter, and each action is one such piece.      *)
(* with_config creates the directory or takes it as it is, with the files  *)
(* an earlier run left in it.  Creating a file can fail, a write can be    *)
(* cut short, a sync can fail, and a file can fail to be removed.          *)
(***************************************************************************)
MemoryCapacity == 100       \* with_config: NonZeroUsize::new(100)
MaxSizeMb == 1              \* with_config(cache_dir, max_size_mb)
MaxStores == 2              \* store calls

\* let max_size = max_size_mb * 1024 * 1024
max_size == MaxSizeMb * 1024 * 1024

\* the tasks that share the cache
Callers == {1, 2}

\* Vec<u8>: len bytes, each of them fill
Bytes(len, fill) == [len |-> len, fill |-> fill]

\* ContentType and ContentSource values (lib.rs), as <<variant, field>>
Image(format) == <<"Image", format>>
Markdown(theme) == <<"Markdown", theme>>
Url(url) == <<"Url", url>>
File(path) == <<"File", path>>

\* serde: #[serde(tag = "type", rename_all = "snake_case")]; None is null
content_type_to_json(ct) ==
    IF ct[1] = "Image" THEN [type |-> "image", format |-> ct[2]]
    ELSE [type |-> "markdown", theme |-> IF ct[2] = <<>> THEN "null" ELSE ct[2][1]]

content_type_from_json(j) ==
    IF j.type = "image" THEN Image(j.format)
    ELSE Markdown(IF j.theme = "null" THEN <<>> ELSE <<j.theme>>)

\* serde: #[serde(tag = "source", rename_all = "snake_case")]
source_to_json(src) ==
    IF src[1] = "Url" THEN [source |-> "url", url |-> src[2]]
    ELSE [source |-> "file", path |-> src[2]]

source_from_json(j) ==
    IF j.source = "url" THEN Url(j.url) ELSE File(j.path)

\* the arguments of store: content_type, source, data, mime_type
StoreInputs ==
    { [ content_type |-> Image("png"), source |-> Url("http://h/a.png"),
        data |-> Bytes(400000, 1), mime_type |-> "image/png" ],
      [ content_type |-> Markdown(<<>>), source |-> File("/tmp/a.md"),
        data |-> Bytes(700000, 2), mime_type |-> "text/markdown" ],
      [ content_type |-> Image("jpeg"), source |-> File("/tmp/b.jpg"),
        data |-> Bytes(2000000, 3), mime_type |-> "image/jpeg" ] }

\* Uuid::new_v4().to_string(): the n-th id drawn
Uuid(n) == "uuid-" \o ToString(n)

\* self.cache_dir.join(&id), self.cache_dir.join(format!("{}.meta", &id))
FilePath(key) == "cache/" \o key
MetaPath(key) == "cache/" \o key \o ".meta"

\* CachedContent { id, content_type, source, data, mime_type, size, cached_at }
CachedContent(id, input) ==
    [ id |-> id, content_type |-> input.content_type, source |-> input.source,
      data |-> input.data, mime_type |-> input.mime_type,
      size |-> input.data.len, cached_at |-> now ]

\* the metadata file: serde_json::json!({..}) without the data field
Metadata(content) ==
    [ id |-> content.id,
      content_type |-> content_type_to_json(content.content_type),
      source |-> source_to_json(content.source),
      mime_type |-> content.mime_type,
      size |-> content.size,
      cached_at |-> content.cached_at ]

\* get: CachedContent rebuilt from the two files
Reconstruct(data, metadata) ==
    [ id |-> metadata.id,
      content_type |-> content_type_from_json(metadata.content_type),
      source |-> source_from_json(metadata.source),
      data |-> data,
      mime_type |-> metadata.mime_type,
      size |-> metadata.size,
      cached_at |-> metadata.cached_at ]

\* LruCache: a sequence of CachedContent, least recently used first
LruKeys(cache) == {cache[i].id : i \in DOMAIN cache}
LruPeek(cache, key) == cache[CHOOSE i \in DOMAIN cache : cache[i].id = key]
LruPop(cache, key) == SelectSeq(cache, LAMBDA c : c.id # key)

\* LruCache::put: the key becomes the most recent; a new key in a full cache
\* pushes the least recent one out
LruPut(cache, content) ==
    IF content.id \in LruKeys(cache) THEN Append(LruPop(cache, content.id), content)
    ELSE IF Len(cache) = MemoryCapacity THEN Append(Tail(cache), content)
    ELSE Append(cache, content)

\* LruCache::get: the key becomes the most recent
LruGet(cache, key) == Append(LruPop(cache, key), LruPeek(cache, key))

\* the sizes of the entries lo..hi of the LRU, added up
RECURSIVE SizeOf(_, _, _)
SizeOf(cache, lo, hi) ==
    IF lo > hi THEN 0
    ELSE IF lo = hi THEN cache[lo].size
    ELSE LET mid == (lo + hi) \div 2
         IN SizeOf(cache, lo, mid) + SizeOf(cache, mid + 1, hi)

\* evict_lru's loop: while freed < target_size { cache.pop_lru() .. } pops
\* the fewest least recent entries that free target_size, or all of them
PopLru(cache, target_size) ==
    LET n == CHOOSE k \in 0..Len(cache) :
                 /\ k = Len(cache) \/ SizeOf(cache, 1, k) >= target_size
                 /\ k = 0 \/ SizeOf(cache, 1, k - 1) < target_size
    IN [ cache |-> SubSeq(cache, n + 1, Len(cache)),
         keys |-> [i \in 1..n |-> cache[i].id],
         freed |-> SizeOf(cache, 1, n) ]

\* usize::saturating_sub
saturating_sub(a, b) == IF a >= b THEN a - b ELSE 0

\* fs::remove_file, its error ignored: the file is gone if the call went
\* well or if it was not there, and is left if the call failed
remove_file(fs, path, ok) ==
    IF ok THEN [p \in (DOMAIN fs) \ {path} |-> fs[p]] ELSE fs

\* The sizes a file cannot grow past when a write is cut short: a disk that
\* is full, and two limits on the size of a file.  The JSON text of the
\* metadata of the items stored here is MetaLen bytes at most.
FileLimits == {0, 500, 102400}
MetaLen == 400

\* What becomes of the bytes handed to write_all: they are all written, or
\* the write is cut short at a limit by an error that write_all does not
\* return (it has handed the bytes over) and that sync_all takes in without
\* returning it.
WriteOutcomes ==
    {[kind |-> "written", limit |-> 0]}
        \cup {[kind |-> "cut", limit |-> n] : n \in FileLimits}

\* the bytes of a data file after the write
WrittenData(data, outcome) ==
    IF outcome.kind = "cut" /\ outcome.limit < data.len
    THEN IF outcome.limit = 0 THEN Bytes(0, 0) ELSE Bytes(outcome.limit, data.fill)
    ELSE data

\* the contents of a metadata file after the write: the JSON text, or a
\* part of it that does not parse
WrittenMeta(metadata, outcome) ==
    IF outcome.kind = "cut" /\ outcome.limit < MetaLen
    THEN Bytes(0, 0)
    ELSE metadata

\* serde_json::from_slice succeeds on the whole JSON text only
ParsesAsJson(contents) == "id" \in DOMAIN contents

\* a caller with no call in flight
NoCall == [pc |-> "idle"]

\* with_config returned an error: there is no cache to call
NoCache == [pc |-> "none"]

Quiescent == \A c \in Callers : calls[c] = NoCall

\* what a cache call returned: Ok(value) or Err(..); <<>> stands for None
\* and for (); key is the argument of get and remove, the id for store
CacheOk(op, key, value) == [op |-> op, ok |-> TRUE, value |-> value, key |-> key]
CacheErr(op, key) == [op |-> op, ok |-> FALSE, value |-> <<>>, key |-> key]

\* The cache_dir with_config is given: a path where nothing is or an empty
\* directory; the directory of an earlier cache, with the two files of an
\* item that cache stored; the path of a regular file.
CacheDirs == {"fresh", "used", "file"}

LeftKey == "left-1"

LeftInput ==
    [ content_type |-> Image("png"), source |-> Url("http://h/old.png"),
      data |-> Bytes(1000, 9), mime_type |-> "image/png" ]

\* std::fs::create_dir_all(&cache_dir): what is in the directory stays
DirFiles(dir) ==
    IF dir = "used"
    THEN [p \in {FilePath(LeftKey), MetaPath(LeftKey)} |->
             IF p = FilePath(LeftKey) THEN LeftInput.data
             ELSE Metadata(CachedContent(LeftKey, LeftInput))]
    ELSE <<>>

\* ContentCache::with_config: create_dir_all(&cache_dir)? fails on the path
\* of a regular file; else the cache starts empty, whatever the directory
\* holds
with_config(dir) ==
    /\ memory_cache = <<>>
    /\ disk_cache = <<>>
    /\ current_size = 0
    /\ files = DirFiles(dir)
    /\ calls = [c \in Callers |-> IF dir = "file" THEN NoCache ELSE NoCall]
    /\ cache_ret = IF dir = "file" THEN CacheErr("new", "")
                   ELSE CacheOk("new", "", <<>>)
    /\ held = <<>>
    /\ next_id = 0

discovery_vars ==
    <<devices, mdns, discovery_running, tasks, procs, now, mono, steady, ret,
      starts, adverts>>

\* the call of caller c returns r
Return(c, r) ==
    /\ calls' = [calls EXCEPT ![c] = NoCall]
    /\ cache_ret' = r

\* the call of caller c goes on as call
Goto(c, call) ==
    /\ calls' = [calls EXCEPT ![c] = call]
    /\ cache_ret' = cache_ret

\* disk_cache.get(key) in get hands out a reference that is kept over the
\* awaits that follow; a writer of that entry waits until it is dropped
IndexFree(key) ==
    \A c \in Callers : ~( /\ calls[c].pc \in {"get_exists_data", "get_exists_meta",
                                    "get_read_data", "get_read_meta", "get_put"}
                   /\ calls[c].key = key )

(***************************************************************************)
(* ContentCache::stats                                                     *)
(***************************************************************************)
stats ==
    [ memory_items |-> Len(memory_cache),
      disk_items |-> Cardinality(DOMAIN disk_cache),
      total_size_bytes |-> current_size,
      max_size_bytes |-> max_size ]

(***************************************************************************)
(* ContentCache::store, with ensure_capacity and evict_lru.  A call keeps  *)
(* in `entry` the cache as it found it: the indexed keys and the stats.    *)
(***************************************************************************)
\* let id = Uuid::new_v4().to_string(); let size = data.len();
StoreCall(c, input) ==
    /\ calls[c] = NoCall
    /\ next_id < MaxStores
    /\ next_id' = next_id + 1
    /\ Goto(c, [ op |-> "store", pc |-> "capacity", id |-> Uuid(next_id + 1),
                 input |-> input, to_free |-> 0, keys |-> <<>>, freed |-> 0,
                 cached_at |-> 0,
                 entry |-> [keys |-> DOMAIN disk_cache, stats |-> stats] ])
    /\ UNCHANGED <<memory_cache, disk_cache, current_size, files, held>>
    /\ UNCHANGED discovery_vars

\* ensure_capacity, the head of its loop: the tracked size is read under its
\* lock; the item fits and store goes on, or to_free is worked out
EnsureCapacity(c) ==
    /\ calls[c].pc = "capacity"
    /\ LET needed == calls[c].input.data.len
       IN IF current_size + needed <= max_size
          THEN Goto(c, [calls[c] EXCEPT !.pc = "put"])
          ELSE Goto(c, [calls[c] EXCEPT !.pc = "has_items",
                                        !.to_free = (current_size + needed) - max_size])
    /\ UNCHANGED <<memory_cache, disk_cache, current_size, files, held, next_id>>
    /\ UNCHANGED discovery_vars

\* let has_items = self.memory_cache.lock().unwrap().len() > 0
HasItems(c) ==
    /\ calls[c].pc = "has_items"
    /\ IF Len(memory_cache) > 0
       THEN Goto(c, [calls[c] EXCEPT !.pc = "pop"])
       ELSE Return(c, CacheErr("store", calls[c].id))
    /\ UNCHANGED <<memory_cache, disk_cache, current_size, files, held, next_id>>
    /\ UNCHANGED discovery_vars

\* the next key of keys_to_remove, or the size update after the last one
EvictNext(call, keys) ==
    [call EXCEPT !.keys = keys,
                 !.pc = IF keys = <<>> THEN "evict_size" ELSE "evict_key"]

\* evict_lru, its first block: the least recent items are popped under the
\* LRU's lock until enough is freed
EvictLru(c) ==
    /\ calls[c].pc = "pop"
    /\ LET popped == PopLru(memory_cache, calls[c].to_free)
       IN /\ memory_cache' = popped.cache
          /\ Goto(c, EvictNext([calls[c] EXCEPT !.freed = popped.freed], popped.keys))
    /\ UNCHANGED <<disk_cache, current_size, files, held, next_id>>
    /\ UNCHANGED discovery_vars

\* self.disk_cache.remove(&key) for the next popped key
EvictKey(c) ==
    /\ calls[c].pc = "evict_key"
    /\ LET key == Head(calls[c].keys)
       IN /\ IndexFree(key)
          /\ IF key \in DOMAIN disk_cache
             THEN /\ disk_cache' = MapRemove(disk_cache, key)
                  /\ Goto(c, [calls[c] EXCEPT !.pc = "evict_data"])
             ELSE /\ disk_cache' = disk_cache
                  /\ Goto(c, EvictNext(calls[c], Tail(calls[c].keys)))
    /\ UNCHANGED <<memory_cache, current_size, files, held, next_id>>
    /\ UNCHANGED discovery_vars

\* let _ = fs::remove_file(&path).await, then the same for meta_path
EvictFile(c, ok) ==
    /\ calls[c].pc \in {"evict_data", "evict_meta"}
    /\ LET key == Head(calls[c].keys)
       IN IF calls[c].pc = "evict_data"
          THEN /\ files' = remove_file(files, FilePath(key), ok)
               /\ Goto(c, [calls[c] EXCEPT !.pc = "evict_meta"])
          ELSE /\ files' = remove_file(files, MetaPath(key), ok)
               /\ Goto(c, EvictNext(calls[c], Tail(calls[c].keys)))
    /\ UNCHANGED <<memory_cache, disk_cache, current_size, held, next_id>>
    /\ UNCHANGED discovery_vars

\* *current_size = current_size.saturating_sub(freed), and back to the head
\* of ensure_capacity's loop
EvictSize(c) ==
    /\ calls[c].pc = "evict_size"
    /\ current_size' = saturating_sub(current_size, calls[c].freed)
    /\ Goto(c, [calls[c] EXCEPT !.pc = "capacity", !.freed = 0, !.to_free = 0])
    /\ UNCHANGED <<memory_cache, disk_cache, files, held, next_id>>
    /\ UNCHANGED discovery_vars

\* the item as store built it
StoreContent(call) ==
    [CachedContent(call.id, call.input) EXCEPT !.cached_at = call.cached_at]

\* the item is built and put into the LRU
StorePut(c) ==
    /\ calls[c].pc = "put"
    /\ memory_cache' = LruPut(memory_cache, CachedContent(calls[c].id, calls[c].input))
    /\ Goto(c, [calls[c] EXCEPT !.pc = "create_data", !.cached_at = now])
    /\ UNCHANGED <<disk_cache, current_size, files, held, next_id>>
    /\ UNCHANGED discovery_vars

\* fs::File::create(&file_path).await?, fs::File::create(&meta_path).await?
StoreCreate(c, ok) ==
    /\ calls[c].pc \in {"create_data", "create_meta"}
    /\ LET data == calls[c].pc = "create_data"
           path == IF data THEN FilePath(calls[c].id) ELSE MetaPath(calls[c].id)
       IN IF ok
          THEN /\ files' = MapInsert(files, path, Bytes(0, 0))
               /\ Goto(c, [calls[c] EXCEPT !.pc = IF data THEN "write_data"
                                                  ELSE "write_meta"])
          ELSE /\ files' = files
               /\ Return(c, CacheErr("store", calls[c].id))
    /\ UNCHANGED <<memory_cache, disk_cache, current_size, held, next_id>>
    /\ UNCHANGED discovery_vars

\* file.write_all(..).await?, for the data file and for the metadata file:
\* it returns Ok, and the bytes, all of them or those up to a limit, go to
\* the file that was created, also when it has been removed from the
\* directory since.
StoreWrite(c, outcome) ==
    /\ calls[c].pc \in {"write_data", "write_meta"}
    /\ LET data == calls[c].pc = "write_data"
           path == IF data THEN FilePath(calls[c].id) ELSE MetaPath(calls[c].id)
           contents == IF data THEN WrittenData(calls[c].input.data, outcome)
                       ELSE WrittenMeta(Metadata(StoreContent(calls[c])), outcome)
       IN /\ files' = IF path \in DOMAIN files
                      THEN [files EXCEPT ![path] = contents] ELSE files
          /\ Goto(c, [calls[c] EXCEPT !.pc = IF data THEN "sync_data"
                                             ELSE "sync_meta"])
    /\ UNCHANGED <<memory_cache, disk_cache, current_size, held, next_id>>
    /\ UNCHANGED discovery_vars

\* file.sync_all().await?: Ok, or the error of the sync, whatever became of
\* the write
StoreSync(c, ok) ==
    /\ calls[c].pc \in {"sync_data", "sync_meta"}
    /\ IF ok
       THEN Goto(c, [calls[c] EXCEPT !.pc = IF calls[c].pc = "sync_data"
                                           THEN "create_meta" ELSE "index"])
       ELSE Return(c, CacheErr("store", calls[c].id))
    /\ UNCHANGED <<memory_cache, disk_cache, current_size, files, held, next_id>>
    /\ UNCHANGED discovery_vars

\* self.disk_cache.insert(id.clone(), file_path)
StoreIndex(c) ==
    /\ calls[c].pc = "index"
    /\ IndexFree(calls[c].id)
    /\ disk_cache' = MapInsert(disk_cache, calls[c].id, FilePath(calls[c].id))
    /\ Goto(c, [calls[c] EXCEPT !.pc = "size"])
    /\ UNCHANGED <<memory_cache, current_size, files, held, next_id>>
    /\ UNCHANGED discovery_vars

\* *current_size += size; Ok(id)
StoreSize(c) ==
    /\ calls[c].pc = "size"
    /\ current_size' = current_size + calls[c].input.data.len
    /\ held' = MapInsert(held, calls[c].id, calls[c].input)
    /\ Return(c, CacheOk("store", calls[c].id, calls[c].id))
    /\ UNCHANGED <<memory_cache, disk_cache, files, next_id>>
    /\ UNCHANGED discovery_vars

(***************************************************************************)
(* ContentCache::get                                                       *)
(***************************************************************************)
\* what get(key) returns when it runs alone: the LRU's entry, else the item
\* rebuilt from its files, else None; an error when the metadata file does
\* not parse
get_value(key) ==
    IF key \in LruKeys(memory_cache)
    THEN CacheOk("get", key, <<LruPeek(memory_cache, key)>>)
    ELSE IF /\ key \in DOMAIN disk_cache
            /\ disk_cache[key] \in DOMAIN files
            /\ MetaPath(key) \in DOMAIN files
    THEN IF ParsesAsJson(files[MetaPath(key)])
         THEN CacheOk("get", key, <<Reconstruct(files[disk_cache[key]], files[MetaPath(key)])>>)
         ELSE CacheErr("get", key)
    ELSE CacheOk("get", key, <<>>)

\* the LRU is looked up under its lock: a hit makes the key the most recent
\* and is returned
GetCall(c, key) ==
    /\ calls[c] = NoCall
    /\ IF key \in LruKeys(memory_cache)
       THEN /\ memory_cache' = LruGet(memory_cache, key)
            /\ Return(c, CacheOk("get", key, <<LruPeek(memory_cache, key)>>))
       ELSE /\ memory_cache' = memory_cache
            /\ Goto(c, [op |-> "get", pc |-> "get_index", key |-> key,
                        data |-> Bytes(0, 0), content |-> <<>>])
    /\ UNCHANGED <<disk_cache, current_size, files, held, next_id>>
    /\ UNCHANGED discovery_vars

\* if let Some(path) = self.disk_cache.get(key)
GetIndex(c) ==
    /\ calls[c].pc = "get_index"
    /\ IF calls[c].key \in DOMAIN disk_cache
       THEN Goto(c, [calls[c] EXCEPT !.pc = "get_exists_data"])
       ELSE Return(c, CacheOk("get", calls[c].key, <<>>))
    /\ UNCHANGED <<memory_cache, disk_cache, current_size, files, held, next_id>>
    /\ UNCHANGED discovery_vars

\* try_exists(path.value()).await? && try_exists(&meta_path).await?; ok:
\* the file system answers, otherwise the ? returns the error
GetExists(c, ok) ==
    /\ calls[c].pc \in {"get_exists_data", "get_exists_meta"}
    /\ LET key == calls[c].key
       IN IF ~ok
          THEN Return(c, CacheErr("get", key))
          ELSE IF calls[c].pc = "get_exists_data"
          THEN IF disk_cache[key] \in DOMAIN files
               THEN Goto(c, [calls[c] EXCEPT !.pc = "get_exists_meta"])
               ELSE Return(c, CacheOk("get", key, <<>>))
          ELSE IF MetaPath(key) \in DOMAIN files
               THEN Goto(c, [calls[c] EXCEPT !.pc = "get_read_data"])
               ELSE Return(c, CacheOk("get", key, <<>>))
    /\ UNCHANGED <<memory_cache, disk_cache, current_size, files, held, next_id>>
    /\ UNCHANGED discovery_vars

\* fs::read(path.value()).await?, then fs::read(&meta_path).await?, the
\* parse and the item rebuilt from the two
GetRead(c) ==
    /\ calls[c].pc \in {"get_read_data", "get_read_meta"}
    /\ LET key == calls[c].key
           path == IF calls[c].pc = "get_read_data" THEN disk_cache[key]
                   ELSE MetaPath(key)
       IN IF path \notin DOMAIN files
          THEN Return(c, CacheErr("get", key))
          ELSE IF calls[c].pc = "get_read_data"
          THEN Goto(c, [calls[c] EXCEPT !.pc = "get_read_meta", !.data = files[path]])
          ELSE IF ParsesAsJson(files[path])
          THEN Goto(c, [calls[c] EXCEPT !.pc = "get_put", !.data = Bytes(0, 0),
                           !.content = <<Reconstruct(calls[c].data, files[path])>>])
          ELSE Return(c, CacheErr("get", key))
    /\ UNCHANGED <<memory_cache, disk_cache, current_size, files, held, next_id>>
    /\ UNCHANGED discovery_vars

\* cache.put(key.to_string(), cached_content.clone()); Ok(Some(cached_content))
GetPut(c) ==
    /\ calls[c].pc = "get_put"
    /\ memory_cache' = LruPut(memory_cache, calls[c].content[1])
    /\ Return(c, CacheOk("get", calls[c].key, calls[c].content))
    /\ UNCHANGED <<disk_cache, current_size, files, held, next_id>>
    /\ UNCHANGED discovery_vars

(***************************************************************************)
(* ContentCache::remove                                                    *)
(***************************************************************************)
\* what follows the files: the size update if the LRU held the key
RemoveNext(c) ==
    IF calls[c].size = <<>>
    THEN Return(c, CacheOk("remove", calls[c].key, <<>>))
    ELSE Goto(c, [calls[c] EXCEPT !.pc = "remove_size"])

\* the size comes from the LRU's entry: cache.pop(key).map(|c| c.size)
RemoveCall(c, key) ==
    /\ calls[c] = NoCall
    /\ memory_cache' = LruPop(memory_cache, key)
    /\ Goto(c, [ op |-> "remove", pc |-> "remove_index", key |-> key,
                 size |-> IF key \in LruKeys(memory_cache)
                          THEN <<LruPeek(memory_cache, key).size>> ELSE <<>> ])
    /\ UNCHANGED <<disk_cache, current_size, files, held, next_id>>
    /\ UNCHANGED discovery_vars

\* if let Some((_, path)) = self.disk_cache.remove(key)
RemoveIndex(c) ==
    /\ calls[c].pc = "remove_index"
    /\ IndexFree(calls[c].key)
    /\ IF calls[c].key \in DOMAIN disk_cache
       THEN /\ disk_cache' = MapRemove(disk_cache, calls[c].key)
            /\ Goto(c, [calls[c] EXCEPT !.pc = "remove_data"])
       ELSE /\ disk_cache' = disk_cache
            /\ RemoveNext(c)
    /\ UNCHANGED <<memory_cache, current_size, files, held, next_id>>
    /\ UNCHANGED discovery_vars

\* let _ = fs::remove_file(&path).await, then the same for meta_path
RemoveFile(c, ok) ==
    /\ calls[c].pc \in {"remove_data", "remove_meta"}
    /\ IF calls[c].pc = "remove_data"
       THEN /\ files' = remove_file(files, FilePath(calls[c].key), ok)
            /\ Goto(c, [calls[c] EXCEPT !.pc = "remove_meta"])
       ELSE /\ files' = remove_file(files, MetaPath(calls[c].key), ok)
            /\ RemoveNext(c)
    /\ UNCHANGED <<memory_cache, disk_cache, current_size, held, next_id>>
    /\ UNCHANGED discovery_vars

\* *current_size = current_size.saturating_sub(size); Ok(())
RemoveSize(c) ==
    /\ calls[c].pc = "remove_size"
    /\ current_size' = saturating_sub(current_size, calls[c].size[1])
    /\ Return(c, CacheOk("remove", calls[c].key, <<>>))
    /\ UNCHANGED <<memory_cache, disk_cache, files, held, next_id>>
    /\ UNCHANGED discovery_vars

(***************************************************************************)
(* ContentCache::clear.  disk_cache.clear() empties the index one lock     *)
(* after the other, and the directory is gone through one entry after the  *)
(* other: what was there when the pass began has been visited by its end,  *)
(* what is added during the pass is visited or is not.  A file that cannot *)
(* be removed is left where it is.                                         *)
(***************************************************************************)
\* cache.clear() under the LRU's lock; disk_cache.clear() begins
ClearCall(c) ==
    /\ calls[c] = NoCall
    /\ memory_cache' = <<>>
    /\ Goto(c, [ op |-> "clear", pc |-> "clear_index",
                 todo |-> DOMAIN disk_cache, seen |-> {} ])
    /\ UNCHANGED <<disk_cache, current_size, files, held, next_id>>
    /\ UNCHANGED discovery_vars

\* disk_cache.clear() empties the lock that key is under
ClearIndex(c, key) ==
    /\ calls[c].pc = "clear_index"
    /\ key \in DOMAIN disk_cache
    /\ IndexFree(key)
    /\ disk_cache' = MapRemove(disk_cache, key)
    /\ Goto(c, calls[c])
    /\ UNCHANGED <<memory_cache, current_size, files, held, next_id>>
    /\ UNCHANGED discovery_vars

\* disk_cache.clear() is through; fs::read_dir(&self.cache_dir).await?; ok:
\* the directory can be read, otherwise the ? returns the error and
\* current_size is not reset
ClearReadDir(c, ok) ==
    /\ calls[c].pc = "clear_index"
    /\ calls[c].todo \cap DOMAIN disk_cache = {}
    /\ IF ok
       THEN Goto(c, [calls[c] EXCEPT !.pc = "clear_dir", !.todo = DOMAIN files])
       ELSE Return(c, CacheErr("clear", ""))
    /\ UNCHANGED <<memory_cache, disk_cache, current_size, files, held, next_id>>
    /\ UNCHANGED discovery_vars

\* read_dir.next_entry().await? yields path;
\* let _ = fs::remove_file(entry.path()).await
ClearFile(c, path, ok) ==
    /\ calls[c].pc = "clear_dir"
    /\ path \in DOMAIN files \ calls[c].seen
    /\ files' = remove_file(files, path, ok)
    /\ Goto(c, [calls[c] EXCEPT !.seen = @ \cup {path}])
    /\ UNCHANGED <<memory_cache, disk_cache, current_size, held, next_id>>
    /\ UNCHANGED discovery_vars

\* read_dir.next_entry().await? returns Err: the pass ends there, the files
\* not yet visited stay and current_size is not reset
ClearEntryErr(c) ==
    /\ calls[c].pc = "clear_dir"
    /\ Return(c, CacheErr("clear", ""))
    /\ UNCHANGED <<memory_cache, disk_cache, current_size, files, held, next_id>>
    /\ UNCHANGED discovery_vars

\* next_entry() yields None; *current_size = 0; Ok(())
ClearSize(c) ==
    /\ calls[c].pc = "clear_dir"
    /\ (calls[c].todo \ calls[c].seen) \cap DOMAIN files = {}
    /\ current_size' = 0
    /\ Return(c, CacheOk("clear", "", <<>>))
    /\ UNCHANGED <<memory_cache, disk_cache, files, held, next_id>>
    /\ UNCHANGED discovery_vars

(***************************************************************************)
(* DeviceDiscovery::new, ContentCache::with_config                         *)
(***************************************************************************)
\* DeviceDiscovery::new, with the clocks at their origin
DiscoveryNew ==
    /\ devices = <<>>
    /\ mdns = 0
    /\ discovery_running = FALSE
    /\ tasks = <<>>
    /\ procs = <<>>
    /\ now = 0
    /\ mono = 0
    /\ steady = TRUE
    /\ ret = Ok("new")
    /\ starts = 0
    /\ adverts = 0

Init ==
    /\ DiscoveryNew
    /\ with_config("fresh")

(***************************************************************************)
(* DeviceDiscovery::start.  The write lock on discovery_running is held    *)
(* for the whole call, and every spawned task first needs the read lock,   *)
(* so the call is one step.  daemon_ok: ServiceDaemon::new succeeds;       *)
(* fail_at: index of the device type whose mdns.browse fails (0: none).    *)
(* The daemon created by the n-th call is numbered n.  The watchers of a   *)
(* call that succeeds find the flag set once the lock is released, so      *)
(* they are spawned waiting for their first event.                         *)
(***************************************************************************)
\* the running check gone wrong: Start never returns early
NeverRunning == FALSE

\* the running check gone wrong: a flag that Stop does not reset
AlreadyStarted == starts > 0

\* if *running { return Ok(()); }
AlreadyRunning == discovery_running

\* StartOk gone wrong: the error of ServiceDaemon::new is dropped
StartOkIgnoringDaemon(daemon_ok, fail_at) == fail_at = 0

\* StartOk gone wrong: the error of mdns.browse is dropped
StartOkIgnoringBrowse(daemon_ok, fail_at) == daemon_ok

\* the call gets to the end: the daemon is created and every browse opens
StartOk(daemon_ok, fail_at) == daemon_ok /\ fail_at = 0

needs_upnp(device_types) ==
    \E i \in 1..Len(device_types) : device_types[i] \in {Upnp, Dlna}

StartSpawned(device_types, daemon_ok, fail_at) ==
    LET nwatch == IF ~daemon_ok THEN 0
                  ELSE IF fail_at = 0 THEN Len(device_types)
                  ELSE fail_at - 1
        ok == StartOk(daemon_ok, fail_at)
        watchers == [i \in 1..nwatch |->
                        NewProc("mdns", device_types[i], IF ok THEN "recv" ELSE "check")]
        poller == IF ok /\ needs_upnp(device_types)
                  THEN <<NewProc("ssdp", Upnp, "tick")>> ELSE <<>>
        reaper == IF ok THEN <<NewProc("reaper", Upnp, "tick")>> ELSE <<>>
    IN watchers \o poller \o reaper

Start(device_types, daemon_ok, fail_at) ==
    /\ starts < MaxStarts
    /\ ret # Waiting("stop")
    /\ RunningLockFree
    /\ starts' = starts + 1
    /\ IF AlreadyRunning
       THEN /\ ret' = Ok("start")
            /\ UNCHANGED <<devices, mdns, discovery_running, tasks, procs, now, mono, steady, adverts>>
       ELSE
         /\ LET spawned == StartSpawned(device_types, daemon_ok, fail_at)
                ok == StartOk(daemon_ok, fail_at)
                left == Detach(AbortAll(procs, tasks))
            IN /\ procs' = left \o spawned
               /\ tasks' = [i \in 1..Len(spawned) |-> Len(left) + i]
               /\ mdns' = IF ok THEN starts + 1 ELSE mdns
               /\ discovery_running' = ok
               /\ ret' = IF ok THEN Ok("start") ELSE Err("start")
         /\ UNCHANGED <<devices, now, mono, steady, adverts>>

(***************************************************************************)
(* DeviceDiscovery::stop.  shutdown_ok: ServiceDaemon::shutdown succeeds.  *)
(***************************************************************************)
\* the stopped check gone wrong: Stop never returns early
NeverStopped == FALSE

\* if !*running { return Ok(()); }
AlreadyStopped == ~discovery_running

\* stop is called: self.discovery_running.write() joins the lock's queue
StopWait ==
    /\ ret # Waiting("stop")
    /\ ret' = Waiting("stop")
    /\ UNCHANGED <<devices, mdns, discovery_running, tasks, procs, now, mono, steady, starts, adverts>>

\* the write lock is granted, at once or after the wait, and the body runs
Stop(shutdown_ok) ==
    /\ RunningLockFree
    /\ IF AlreadyStopped
       THEN /\ ret' = Ok("stop")
            /\ UNCHANGED <<devices, mdns, discovery_running, tasks, procs, now, mono, steady, starts, adverts>>
       ELSE /\ discovery_running' = FALSE
            /\ procs' = Detach(AbortAll(procs, tasks))
            /\ tasks' = <<>>
            /\ mdns' = 0
            /\ ret' = IF mdns # 0 /\ ~shutdown_ok THEN Err("stop") ELSE Ok("stop")
            /\ UNCHANGED <<devices, now, mono, steady, starts, adverts>>

(***************************************************************************)
(* A step of task t that leaves it as p.  A task that has ended and whose  *)
(* handle is no longer held is forgotten; the handles held (all of later   *)
(* tasks) follow the shift.                                                *)
(***************************************************************************)
TaskStep(t, p) ==
    IF Ended(p) /\ t \notin Range(tasks)
    THEN /\ procs' = SubSeq(procs, 1, t - 1) \o SubSeq(procs, t + 1, Len(procs))
         /\ tasks' = [j \in DOMAIN tasks |-> IF tasks[j] > t THEN tasks[j] - 1 ELSE tasks[j]]
    ELSE /\ procs' = [procs EXCEPT ![t] = p]
         /\ tasks' = tasks

(***************************************************************************)
(* DeviceDiscovery::handle_mdns_events                                     *)
(***************************************************************************)
\* str::trim_end_matches('.')
RECURSIVE trim_end_dots(_)
trim_end_dots(s) ==
    IF Len(s) > 0 /\ SubSeq(s, Len(s), Len(s)) = "."
    THEN trim_end_dots(SubSeq(s, 1, Len(s) - 1))
    ELSE s

\* format!("{}:{}:{}", device_type.to_mdns_service(), hostname, port)
MdnsId(device_type, hostname, port) ==
    to_mdns_service(device_type) \o ":" \o hostname \o ":" \o ToString(port)

\* metadata[property.key()] = property.val_str(), for each TXT record in turn
RECURSIVE TxtMetadata(_)
TxtMetadata(properties) ==
    IF properties = <<>> THEN <<>>
    ELSE LET n == Len(properties)
         IN MapInsert(TxtMetadata(SubSeq(properties, 1, n - 1)),
                      properties[n][1], properties[n][2])

\* MdnsDevice gone wrong: the record is handed to insert as new() made it,
\* metadata and capabilities to be filled in afterwards
MdnsDeviceBare(device_type, info, ip) ==
    NewDevice(MdnsId(device_type, info.hostname, info.port),
              trim_end_dots(info.fullname), device_type, ip, info.port)

\* the else branch of the upsert: the record as it is handed to insert
MdnsDevice(device_type, info, ip) ==
    [ NewDevice(MdnsId(device_type, info.hostname, info.port),
                trim_end_dots(info.fullname), device_type, ip, info.port)
      EXCEPT !.metadata = TxtMetadata(info.properties),
             !.capabilities = MdnsCapabilities(device_type) ]

\* while *running.read().await, read now
LoopHead(p) ==
    IF discovery_running
    THEN [p EXCEPT !.pc = "recv", !.guard = GuardHeldInBody]
    ELSE Finish(p, "done")

\* The watcher is through with an event and back at the head of its loop.
\* The flag changes only in a Start or Stop that also aborts the tasks
\* whose handles are held, so a watcher that is not aborted reads at once
\* what it would read later; an aborted one may be dropped before it reads.
Continue(p) ==
    IF p.aborted THEN [p EXCEPT !.pc = "check"] ELSE LoopHead(p)

\* running.read().await returns its guard to a task that waits for it; the
\* flag is read, and the guard dropped, in the task's next step
RunningRead(t) ==
    /\ procs[t].pc = "check" /\ ~procs[t].guard
    /\ ReadGranted(t)
    /\ procs' = [procs EXCEPT ![t].guard = TRUE]
    /\ UNCHANGED <<devices, mdns, discovery_running, tasks, now, mono, steady, ret, starts, adverts>>

\* while *running.read().await, for a watcher that has not read the flag yet
WatcherCheck(t) ==
    /\ procs[t].kind = "mdns" /\ procs[t].pc = "check"
    /\ ReadGranted(t)
    /\ TaskStep(t, LoopHead(procs[t]))
    /\ UNCHANGED <<devices, mdns, discovery_running, now, mono, steady, ret, starts, adverts>>

\* a resolution the watcher goes on to upsert: it carries an address
Advertises(event) == event.kind = "resolved" /\ event.addresses # {}

\* WatcherRecv gone wrong: ServiceRemoved deletes the records of that name
WatcherRecvRemoving(t, event) ==
    /\ procs[t].kind = "mdns" /\ procs[t].pc = "recv"
    /\ IF Advertises(event)
       THEN /\ adverts < MaxAdverts
            /\ adverts' = adverts + 1
            /\ TaskStep(t, [procs[t] EXCEPT !.pc = "lookup", !.ev = event])
       ELSE /\ adverts' = adverts
            /\ TaskStep(t, Continue(procs[t]))
    /\ devices' = IF event.kind = "removed"
                  THEN [id \in {k \in DOMAIN devices :
                                   devices[k].name # trim_end_dots(event.fullname)}
                           |-> devices[id]]
                  ELSE devices
    /\ UNCHANGED <<mdns, discovery_running, now, mono, steady, ret, starts>>

\* WatcherRecv gone wrong: a resolution without an address ends the watcher
WatcherRecvFatal(t, event) ==
    /\ procs[t].kind = "mdns" /\ procs[t].pc = "recv"
    /\ IF Advertises(event)
       THEN /\ adverts < MaxAdverts
            /\ adverts' = adverts + 1
            /\ TaskStep(t, [procs[t] EXCEPT !.pc = "lookup", !.ev = event])
       ELSE /\ adverts' = adverts
            /\ TaskStep(t, IF event.kind = "resolved" THEN Finish(procs[t], "done")
                           ELSE Continue(procs[t]))
    /\ UNCHANGED <<devices, mdns, discovery_running, now, mono, steady, ret, starts>>

\* WatcherRecv gone wrong: ServiceRemoved ends the watcher
WatcherRecvLeaving(t, event) ==
    /\ procs[t].kind = "mdns" /\ procs[t].pc = "recv"
    /\ IF Advertises(event)
       THEN /\ adverts < MaxAdverts
            /\ adverts' = adverts + 1
            /\ TaskStep(t, [procs[t] EXCEPT !.pc = "lookup", !.ev = event])
       ELSE /\ adverts' = adverts
            /\ TaskStep(t, IF event.kind = "removed" THEN Finish(procs[t], "done")
                           ELSE Continue(procs[t]))
    /\ UNCHANGED <<devices, mdns, discovery_running, now, mono, steady, ret, starts>>

\* receiver.recv_async().await returns Ok(event).  A resolution without an
\* address is skipped (continue), the other events change nothing.
WatcherRecv(t, event) ==
    /\ procs[t].kind = "mdns" /\ procs[t].pc = "recv"
    /\ IF Advertises(event)
       THEN /\ adverts < MaxAdverts
            /\ adverts' = adverts + 1
            /\ TaskStep(t, [procs[t] EXCEPT !.pc = "lookup", !.ev = event])
       ELSE /\ adverts' = adverts
            /\ TaskStep(t, Continue(procs[t]))
    /\ UNCHANGED <<devices, mdns, discovery_running, now, mono, steady, ret, starts>>

\* receiver.recv_async().await returns Err: the channel is closed
WatcherClosed(t) ==
    /\ procs[t].kind = "mdns" /\ procs[t].pc = "recv"
    /\ TaskStep(t, Finish(procs[t], "done"))
    /\ UNCHANGED <<devices, mdns, discovery_running, now, mono, steady, ret, starts, adverts>>

\* devices.get_mut(&id): present -> update_last_seen under the entry's lock;
\* absent -> the lock is released, the record is still to be built.  ip is
\* the address get_addresses().iter().next() yields (a hash set: any of
\* them).
WatcherLookup(t, ip) ==
    /\ procs[t].kind = "mdns" /\ procs[t].pc = "lookup"
    /\ ip \in procs[t].ev.addresses
    /\ LET p == procs[t]
           id == MdnsId(p.device_type, p.ev.hostname, p.ev.port)
       IN IF id \in DOMAIN devices
          THEN /\ devices' = [devices EXCEPT ![id] = update_last_seen(@)]
               /\ TaskStep(t, Continue([p EXCEPT !.ev = NoEvent]))
          ELSE /\ devices' = devices
               /\ TaskStep(t, [p EXCEPT !.pc = "stamp",
                                        !.ev = [p.ev EXCEPT !.addresses = {ip}]])
    /\ UNCHANGED <<mdns, discovery_running, now, mono, steady, ret, starts, adverts>>

\* DiscoveredDevice::new reads the clock; metadata and capabilities are set
WatcherStamp(t) ==
    /\ procs[t].kind = "mdns" /\ procs[t].pc = "stamp"
    /\ LET p == procs[t]
           ip == CHOOSE a \in p.ev.addresses : TRUE
       IN TaskStep(t, [p EXCEPT !.pc = "insert", !.ev = NoEvent,
                                !.dev = MdnsDevice(p.device_type, p.ev, ip)])
    /\ UNCHANGED <<devices, mdns, discovery_running, now, mono, steady, ret, starts, adverts>>

\* devices.insert(id.clone(), device)
WatcherInsert(t) ==
    /\ procs[t].kind = "mdns" /\ procs[t].pc = "insert"
    /\ devices' = MapInsert(devices, procs[t].dev.id, procs[t].dev)
    /\ TaskStep(t, Continue([procs[t] EXCEPT !.dev = NoDevice]))
    /\ UNCHANGED <<mdns, discovery_running, now, mono, steady, ret, starts, adverts>>

\* an aborted task whose running.read() or recv_async() has to wait is
\* dropped there
TaskCancelled(t) ==
    /\ procs[t].pc \in {"check", "recv"}
    /\ procs[t].aborted /\ ~procs[t].guard
    /\ TaskStep(t, Finish(procs[t], "cancelled"))
    /\ UNCHANGED <<devices, mdns, discovery_running, now, mono, steady, ret, starts, adverts>>

(***************************************************************************)
(* DeviceDiscovery::cleanup_stale_devices                                  *)
(***************************************************************************)
\* interval.tick().await is polled before its deadline: the task yields
ReaperSleep(t) ==
    /\ procs[t].kind = "reaper" /\ procs[t].pc = "loop"
    /\ mono < procs[t].next_tick
    /\ TaskStep(t, Suspend(procs[t], "tick"))
    /\ UNCHANGED <<devices, mdns, discovery_running, now, mono, steady, ret, starts, adverts>>

\* interval.tick().await returns: the deadline has passed on the monotonic
\* clock, for a task at the top of its loop at once and without a yield,
\* for a suspended one when it is woken; the next deadline is one period
\* after this one
ReaperTick(t) ==
    /\ procs[t].kind = "reaper" /\ procs[t].pc \in {"loop", "tick"}
    /\ mono >= procs[t].next_tick
    /\ TaskStep(t, [procs[t] EXCEPT !.pc = "check",
                                    !.next_tick = @ + SweepIntervalSecs * MsPerSec])
    /\ UNCHANGED <<devices, mdns, discovery_running, now, mono, steady, ret, starts, adverts>>

\* if !*running.read().await { break; }, then devices.iter() sets out
ReaperCheck(t) ==
    /\ procs[t].kind = "reaper" /\ procs[t].pc = "check"
    /\ ReadGranted(t)
    /\ TaskStep(t, IF ~discovery_running THEN Finish(procs[t], "done")
                   ELSE [procs[t] EXCEPT !.pc = "scan", !.todo = DOMAIN devices,
                                         !.seen = {}, !.guard = GuardHeldInBody])
    /\ UNCHANGED <<devices, mdns, discovery_running, now, mono, steady, ret, starts, adverts>>

\* the next entry of devices.iter(): is_stale reads the clock for it, and a
\* stale entry's id is pushed to to_remove
ReaperScan(t, id) ==
    /\ procs[t].kind = "reaper" /\ procs[t].pc = "scan"
    /\ id \in DOMAIN devices \ procs[t].seen
    /\ TaskStep(t, [procs[t] EXCEPT
                       !.seen = @ \cup {id},
                       !.to_remove = IF is_stale(devices[id], StaleTimeoutSecs)
                                     THEN Append(@, id) ELSE @])
    /\ UNCHANGED <<devices, mdns, discovery_running, now, mono, steady, ret, starts, adverts>>

\* devices.iter() is through: every entry it set out on has been visited or
\* is gone.  With nothing to remove the task is back at the top of its loop
ReaperScanned(t) ==
    /\ procs[t].kind = "reaper" /\ procs[t].pc = "scan"
    /\ (procs[t].todo \ procs[t].seen) \cap DOMAIN devices = {}
    /\ LET p == [procs[t] EXCEPT !.todo = {}, !.seen = {}]
       IN TaskStep(t, IF p.to_remove = <<>> THEN [p EXCEPT !.pc = "loop"]
                      ELSE [p EXCEPT !.pc = "sweep"])
    /\ UNCHANGED <<devices, mdns, discovery_running, now, mono, steady, ret, starts, adverts>>

\* for id in to_remove { devices.remove(&id) }, one id per step; after the
\* last one the task is back at the top of its loop
ReaperRemove(t, id) ==
    /\ procs[t].kind = "reaper" /\ procs[t].pc = "sweep"
    /\ procs[t].to_remove # <<>> /\ id = Head(procs[t].to_remove)
    /\ devices' = MapRemove(devices, id)
    /\ LET rest == Tail(procs[t].to_remove)
       IN TaskStep(t, IF rest = <<>> THEN [procs[t] EXCEPT !.pc = "loop", !.to_remove = <<>>]
                      ELSE [procs[t] EXCEPT !.to_remove = rest])
    /\ UNCHANGED <<mdns, discovery_running, now, mono, steady, ret, starts, adverts>>

(***************************************************************************)
(* DeviceDiscovery::scan_upnp_devices and discover_upnp_devices            *)
(***************************************************************************)
\* An SSDP response as the scan sees it: ok is FALSE for an Err item of the
\* response stream; url is what url::Url::parse makes of location():
\* parsed, the scheme, host_str() and port() (<<>> stands for None).
HttpWithPort ==
    [ ok |-> TRUE, location |-> "http://192.168.1.7:8200/desc.xml",
      url |-> [parsed |-> TRUE, scheme |-> "http", host |-> <<"192.168.1.7">>, port |-> <<8200>>],
      server |-> "Linux UPnP/1.0" ]
HttpsNoPort ==
    [ ok |-> TRUE, location |-> "https://192.168.1.7/desc.xml",
      url |-> [parsed |-> TRUE, scheme |-> "https", host |-> <<"192.168.1.7">>, port |-> <<>>],
      server |-> "Linux UPnP/1.0" ]
HttpNoPort ==
    [ ok |-> TRUE, location |-> "http://192.168.1.7/desc.xml",
      url |-> [parsed |-> TRUE, scheme |-> "http", host |-> <<"192.168.1.7">>, port |-> <<>>],
      server |-> "Linux UPnP/1.0" ]
NamedHost ==
    [ ok |-> TRUE, location |-> "http://tv.local/desc.xml",
      url |-> [parsed |-> TRUE, scheme |-> "http", host |-> <<"tv.local">>, port |-> <<>>],
      server |-> "Linux UPnP/1.0" ]
BadLocation ==
    [ ok |-> TRUE, location |-> "not a url",
      url |-> [parsed |-> FALSE, scheme |-> "", host |-> <<>>, port |-> <<>>],
      server |-> "" ]
ErrResponse ==
    [ ok |-> FALSE, location |-> "",
      url |-> [parsed |-> FALSE, scheme |-> "", host |-> <<>>, port |-> <<>>],
      server |-> "" ]

\* what one ssdp::search(...) yields: the search fails, or a response stream
SearchResults ==
    { [failed |-> TRUE, responses |-> <<>>],
      [failed |-> FALSE, responses |-> <<>>],
      [failed |-> FALSE, responses |-> <<HttpWithPort>>],
      [failed |-> FALSE, responses |-> <<ErrResponse, BadLocation, NamedHost, HttpWithPort>>] }

\* host.parse::<IpAddr>() succeeds on address literals only
IpLiterals == {"192.168.1.5", "192.168.1.6", "192.168.1.7"}

\* LocationPort gone wrong: the scheme is not looked at
LocationPortHttp(url) ==
    IF url.port # <<>> THEN url.port[1] ELSE 80

\* url.port().unwrap_or_else(|| if url.scheme() == "https" { 443 } else { 80 })
LocationPort(url) ==
    IF url.port # <<>> THEN url.port[1]
    ELSE IF url.scheme = "https" THEN 443 ELSE 80

\* the response yields a device: the location parses, has a host, and the
\* host is an address literal
ResponseUsable(r) ==
    /\ r.ok
    /\ r.url.parsed
    /\ r.url.host # <<>>
    /\ r.url.host[1] \in IpLiterals

\* the device pushed for a root-device response
UpnpDevice(r) ==
    LET host == r.url.host[1]
        port == LocationPort(r.url)
    IN [ NewDevice("upnp:" \o host \o ":" \o ToString(port),
                   "UPnP Device at " \o host, Upnp, host, port)
         EXCEPT !.metadata =
            [ location |-> r.location, search_target |-> "upnp:rootdevice",
              server |-> r.server ] ]

\* the device pushed for a MediaRenderer response
DlnaDevice(r) ==
    LET host == r.url.host[1]
        port == LocationPort(r.url)
        d == NewDevice("dlna:" \o host \o ":" \o ToString(port),
                       "DLNA Renderer at " \o host, Dlna, host, port)
    IN [ d EXCEPT !.capabilities =
                      [ d.capabilities EXCEPT !.can_video = TRUE,
                                              !.can_audio = TRUE,
                                              !.protocols = Append(@, "dlna") ],
                  !.metadata =
                      [ location |-> r.location, device_type |-> "MediaRenderer",
                        server |-> r.server ] ]

\* TakeResponse gone wrong: a response that cannot be used ends the stream
TakeResponseFatal(p, r, renderer) ==
    IF ~ResponseUsable(r) THEN [p EXCEPT !.stream = <<>>]
    ELSE [p EXCEPT !.stream = Tail(@),
                   !.discovered = Append(@, IF renderer THEN DlnaDevice(r)
                                            ELSE UpnpDevice(r))]

\* the body of `while let Some(response) = responses.next().await`: a usable
\* response pushes its device, stamped as it arrives; any other is skipped
TakeResponse(p, r, renderer) ==
    IF ~ResponseUsable(r) THEN [p EXCEPT !.stream = Tail(@)]
    ELSE [p EXCEPT !.stream = Tail(@),
                   !.discovered = Append(@, IF renderer THEN DlnaDevice(r)
                                            ELSE UpnpDevice(r))]

\* the usable responses of what a search yields
SearchAdverts(result) ==
    IF result.failed THEN 0
    ELSE Cardinality({i \in DOMAIN result.responses : ResponseUsable(result.responses[i])})

\* interval.tick().await is polled before its deadline: the task yields
PollerSleep(t) ==
    /\ procs[t].kind = "ssdp" /\ procs[t].pc = "loop"
    /\ mono < procs[t].next_tick
    /\ TaskStep(t, Suspend(procs[t], "tick"))
    /\ UNCHANGED <<devices, mdns, discovery_running, now, mono, steady, ret, starts, adverts>>

\* interval.tick().await returns: the deadline has passed on the monotonic
\* clock, for a task at the top of its loop at once and without a yield,
\* for a suspended one when it is woken; the next deadline is one period
\* after this one
PollerTick(t) ==
    /\ procs[t].kind = "ssdp" /\ procs[t].pc \in {"loop", "tick"}
    /\ mono >= procs[t].next_tick
    /\ TaskStep(t, [procs[t] EXCEPT !.pc = "check",
                                    !.next_tick = @ + PollIntervalSecs * MsPerSec])
    /\ UNCHANGED <<devices, mdns, discovery_running, now, mono, steady, ret, starts, adverts>>

\* if !*running.read().await { break; }, then the scan begins: ssdp::search
\* is called, and its first await, the send on a fresh socket, yields
PollerCheck(t) ==
    /\ procs[t].kind = "ssdp" /\ procs[t].pc = "check"
    /\ ReadGranted(t)
    /\ TaskStep(t, IF ~discovery_running THEN Finish(procs[t], "done")
                   ELSE Suspend([procs[t] EXCEPT !.guard = GuardHeldInBody], "scan_root"))
    /\ UNCHANGED <<devices, mdns, discovery_running, now, mono, steady, ret, starts, adverts>>

\* ssdp::search(&SearchTarget::RootDevice, ..).await returns: Err, and the
\* scan goes on to the second search, or the stream of responses
PollerRootSearch(t, result) ==
    /\ procs[t].kind = "ssdp" /\ procs[t].pc = "scan_root"
    /\ adverts + SearchAdverts(result) <= MaxAdverts
    /\ adverts' = adverts + SearchAdverts(result)
    /\ TaskStep(t, IF result.failed THEN [procs[t] EXCEPT !.pc = "scan_renderer"]
                   ELSE [procs[t] EXCEPT !.pc = "root_next", !.stream = result.responses])
    /\ UNCHANGED <<devices, mdns, discovery_running, now, mono, steady, ret, starts>>

\* responses.next().await returns: the next response, or None at the end of
\* the stream
PollerRootResponse(t) ==
    /\ procs[t].kind = "ssdp" /\ procs[t].pc = "root_next"
    /\ TaskStep(t, IF procs[t].stream = <<>> THEN [procs[t] EXCEPT !.pc = "scan_renderer"]
                   ELSE TakeResponse(procs[t], Head(procs[t].stream), FALSE))
    /\ UNCHANGED <<devices, mdns, discovery_running, now, mono, steady, ret, starts, adverts>>

\* the scan returns Ok(discovered): the upsert loop begins, or with nothing
\* found the task is back at the top of its loop
ScanReturns(p) ==
    IF p.discovered = <<>> THEN [p EXCEPT !.pc = "loop"] ELSE [p EXCEPT !.pc = "upsert"]

\* ssdp::search(&SearchTarget::URN(MediaRenderer), ..).await returns
PollerRendererSearch(t, result) ==
    /\ procs[t].kind = "ssdp" /\ procs[t].pc = "scan_renderer"
    /\ adverts + SearchAdverts(result) <= MaxAdverts
    /\ adverts' = adverts + SearchAdverts(result)
    /\ TaskStep(t, IF result.failed THEN ScanReturns(procs[t])
                   ELSE [procs[t] EXCEPT !.pc = "renderer_next", !.stream = result.responses])
    /\ UNCHANGED <<devices, mdns, discovery_running, now, mono, steady, ret, starts>>

\* responses.next().await of the second stream returns
PollerRendererResponse(t) ==
    /\ procs[t].kind = "ssdp" /\ procs[t].pc = "renderer_next"
    /\ TaskStep(t, IF procs[t].stream = <<>> THEN ScanReturns(procs[t])
                   ELSE TakeResponse(procs[t], Head(procs[t].stream), TRUE))
    /\ UNCHANGED <<devices, mdns, discovery_running, now, mono, steady, ret, starts, adverts>>

\* the next scanned device, or the for loop is over and the task is back at
\* the top of its loop
PollerNext(p, rest) ==
    IF rest = <<>> THEN [p EXCEPT !.pc = "loop", !.discovered = <<>>, !.dev = NoDevice]
    ELSE [p EXCEPT !.pc = "upsert", !.discovered = rest, !.dev = NoDevice]

\* devices.get_mut(&id) for the next scanned device
PollerUpsert(t) ==
    /\ procs[t].kind = "ssdp" /\ procs[t].pc = "upsert"
    /\ LET device == Head(procs[t].discovered)
           rest == Tail(procs[t].discovered)
       IN IF device.id \in DOMAIN devices
          THEN /\ devices' = [devices EXCEPT ![device.id] = update_last_seen(@)]
               /\ TaskStep(t, PollerNext(procs[t], rest))
          ELSE /\ devices' = devices
               /\ TaskStep(t, [procs[t] EXCEPT !.pc = "insert", !.dev = device,
                                               !.discovered = rest])
    /\ UNCHANGED <<mdns, discovery_running, now, mono, steady, ret, starts, adverts>>

\* devices.insert(id, device)
PollerInsert(t) ==
    /\ procs[t].kind = "ssdp" /\ procs[t].pc = "insert"
    /\ devices' = MapInsert(devices, procs[t].dev.id, procs[t].dev)
    /\ TaskStep(t, PollerNext(procs[t], procs[t].discovered))
    /\ UNCHANGED <<mdns, discovery_running, now, mono, steady, ret, starts, adverts>>

(***************************************************************************)
(* The clocks.  Utc::now reads the wall clock: it moves whatever the tasks *)
(* are doing, so two steps of one task, or the steps of two tasks, can     *)
(* read different instants, and it can be set back.  The intervals run on  *)
(* the monotonic clock, which only moves forward; a tick can be taken      *)
(* after its deadline.                                                     *)
(***************************************************************************)
\* the instants the wall clock and the monotonic clock are read at
TimeGrid == {0, 301000}

MonoGrid == {0, 30000}

\* no tick is overdue when the monotonic clock reads m
Punctual(m) ==
    \A i \in DOMAIN procs :
        (~Ended(procs[i]) /\ procs[i].pc = "tick") => m <= procs[i].next_tick

\* every task is suspended: none stands between two of its steps
Prompt ==
    \A i \in DOMAIN procs : ~Ended(procs[i]) => procs[i].pc \in IdlePcs

\* the wall clock comes to read w and the monotonic clock m
Advance(w, m) ==
    /\ m >= mono
    /\ <<w, m>> # <<now, mono>>
    /\ now' = w
    /\ mono' = m
    /\ steady' = (steady /\ w - now = m - mono /\ Punctual(m) /\ Prompt)
    /\ UNCHANGED <<devices, mdns, discovery_running, tasks, procs, ret, starts, adverts>>

(***************************************************************************)
(* The read API                                                            *)
(***************************************************************************)
\* get_devices
get_devices == {devices[id] : id \in DOMAIN devices}

\* get_devices_by_type gone wrong: the types are compared by service name
get_devices_by_service(device_type) ==
    {devices[id] : id \in {k \in DOMAIN devices :
        to_mdns_service(devices[k].device_type) = to_mdns_service(device_type)}}

\* get_devices_by_type
get_devices_by_type(device_type) ==
    {devices[id] : id \in {k \in DOMAIN devices : devices[k].device_type = device_type}}

\* get_device: <<>> is None
get_device(id) == IF id \in DOMAIN devices THEN <<devices[id]>> ELSE <<>>

\* is_running
is_running == discovery_running

(***************************************************************************)
(* The system.  Spec explores the lifecycle: Start calls that succeed or   *)
(* fail, Stop calls, the watchers and the reaper of up to two runs side by *)
(* side, and a wall clock that jumps between two instants 301 s apart, in  *)
(* either direction: an advertisement seen at 0 is stale at 301 s.  So     *)
(* little time passes on the monotonic clock that each reaper takes its    *)
(* first tick only; the poller is spawned and aborted but takes no step.   *)
(***************************************************************************)
\* the events of Spec: a resolution with an address, one without, and the
\* events that carry nothing the watcher uses
LifecycleEvents ==
    { e \in ServiceEvents : e.kind = "resolved" => e.addresses # {"192.168.1.6"} }

Next ==
    \/ \E dts \in StartInputs : Start(dts, FALSE, 0) /\ UNCHANGED cache_vars
    \/ \E dts \in StartInputs : \E fail_at \in 0..Len(dts) : Start(dts, TRUE, fail_at) /\ UNCHANGED cache_vars
    \/ \E shutdown_ok \in BOOLEAN : Stop(shutdown_ok) /\ UNCHANGED cache_vars
    \/ \E t \in DOMAIN procs : WatcherCheck(t) /\ UNCHANGED cache_vars
    \/ \E t \in DOMAIN procs, event \in LifecycleEvents : WatcherRecv(t, event) /\ UNCHANGED cache_vars
    \/ \E t \in DOMAIN procs : WatcherClosed(t) /\ UNCHANGED cache_vars
    \/ \E t \in DOMAIN procs, ip \in IpLiterals : WatcherLookup(t, ip) /\ UNCHANGED cache_vars
    \/ \E t \in DOMAIN procs : WatcherStamp(t) /\ UNCHANGED cache_vars
    \/ \E t \in DOMAIN procs : WatcherInsert(t) /\ UNCHANGED cache_vars
    \/ \E t \in DOMAIN procs : TaskCancelled(t) /\ UNCHANGED cache_vars
    \/ \E t \in DOMAIN procs : ReaperSleep(t) /\ UNCHANGED cache_vars
    \/ \E t \in DOMAIN procs : ReaperTick(t) /\ UNCHANGED cache_vars
    \/ \E t \in DOMAIN procs : ReaperCheck(t) /\ UNCHANGED cache_vars
    \/ \E t \in DOMAIN procs : \E id \in DOMAIN devices : ReaperScan(t, id) /\ UNCHANGED cache_vars
    \/ \E t \in DOMAIN procs : ReaperScanned(t) /\ UNCHANGED cache_vars
    \/ \E t \in DOMAIN procs : \E id \in Range(procs[t].to_remove) : ReaperRemove(t, id) /\ UNCHANGED cache_vars
    \/ \E w \in TimeGrid : Advance(w, mono) /\ UNCHANGED cache_vars

Spec == Init /\ [][Next]_vars

(***************************************************************************)
(* One run of the coordinator with its three kinds of task side by side:   *)
(* it is started once, for a type that needs the poller or for a custom    *)
(* service, and stopped.  The wall clock jumps between the two instants in *)
(* either direction, and the monotonic clock reaches the reaper's second   *)
(* deadline.                                                               *)
(***************************************************************************)
NextRun ==
    \/ \E dts \in StartInputs : starts = 0 /\ Start(dts, TRUE, 0) /\ UNCHANGED cache_vars
    \/ \E shutdown_ok \in BOOLEAN : Stop(shutdown_ok) /\ UNCHANGED cache_vars
    \/ \E t \in DOMAIN procs : WatcherCheck(t) /\ UNCHANGED cache_vars
    \/ \E t \in DOMAIN procs, event \in ServiceEvents : WatcherRecv(t, event) /\ UNCHANGED cache_vars
    \/ \E t \in DOMAIN procs : WatcherClosed(t) /\ UNCHANGED cache_vars
    \/ \E t \in DOMAIN procs, ip \in IpLiterals : WatcherLookup(t, ip) /\ UNCHANGED cache_vars
    \/ \E t \in DOMAIN procs : WatcherStamp(t) /\ UNCHANGED cache_vars
    \/ \E t \in DOMAIN procs : WatcherInsert(t) /\ UNCHANGED cache_vars
    \/ \E t \in DOMAIN procs : TaskCancelled(t) /\ UNCHANGED cache_vars
    \/ \E t \in DOMAIN procs : ReaperSleep(t) /\ UNCHANGED cache_vars
    \/ \E t \in DOMAIN procs : ReaperTick(t) /\ UNCHANGED cache_vars
    \/ \E t \in DOMAIN procs : ReaperCheck(t) /\ UNCHANGED cache_vars
    \/ \E t \in DOMAIN procs : \E id \in DOMAIN devices : ReaperScan(t, id) /\ UNCHANGED cache_vars
    \/ \E t \in DOMAIN procs : ReaperScanned(t) /\ UNCHANGED cache_vars
    \/ \E t \in DOMAIN procs : \E id \in Range(procs[t].to_remove) : ReaperRemove(t, id) /\ UNCHANGED cache_vars
    \/ \E t \in DOMAIN procs : PollerSleep(t) /\ UNCHANGED cache_vars
    \/ \E t \in DOMAIN procs : PollerTick(t) /\ UNCHANGED cache_vars
    \/ \E t \in DOMAIN procs : PollerCheck(t) /\ UNCHANGED cache_vars
    \/ \E t \in DOMAIN procs, result \in SearchResults : PollerRootSearch(t, result) /\ UNCHANGED cache_vars
    \/ \E t \in DOMAIN procs : PollerRootResponse(t) /\ UNCHANGED cache_vars
    \/ \E t \in DOMAIN procs, result \in SearchResults : PollerRendererSearch(t, result) /\ UNCHANGED cache_vars
    \/ \E t \in DOMAIN procs : PollerRendererResponse(t) /\ UNCHANGED cache_vars
    \/ \E t \in DOMAIN procs : PollerUpsert(t) /\ UNCHANGED cache_vars
    \/ \E t \in DOMAIN procs : PollerInsert(t) /\ UNCHANGED cache_vars
    \/ \E w \in TimeGrid, m \in MonoGrid : Advance(w, m) /\ UNCHANGED cache_vars

SpecRun == Init /\ [][NextRun]_vars

(***************************************************************************)
(* The coordinator stopped and started again while the tasks of the first  *)
(* run are at work, with the scheduler's promise.  It is started for a     *)
(* type that needs the poller and, a second time, for no type at all (the  *)
(* reaper alone); one advertisement is taken in, by the watcher or by the  *)
(* poller; both clocks jump once, by more than the stale timeout and to    *)
(* the second deadline of the poller, so a task of the first run can come  *)
(* back to a tick that is overdue after the coordinator has been started   *)
(* again.                                                                  *)
(* The promise: a task that can run is polled.  The steps a task takes     *)
(* between two suspensions are taken (it is being polled, or it is woken   *)
(* by a lock that is free or by a tick that is due), and an aborted task   *)
(* is dropped at an await that has to wait: running.read().await yields    *)
(* when the task has used up its budget, however many events are ready.    *)
(* Nothing is promised about the network, the clocks or the callers.       *)
(***************************************************************************)
LiveResults ==
    { [failed |-> TRUE, responses |-> <<>>],
      [failed |-> FALSE, responses |-> <<HttpWithPort>>] }

NextLive ==
    \/ starts = 0 /\ Start(<<Dlna>>, TRUE, 0) /\ UNCHANGED cache_vars
    \/ starts = 1 /\ Start(<<>>, TRUE, 0) /\ UNCHANGED cache_vars
    \/ \E shutdown_ok \in BOOLEAN : Stop(shutdown_ok) /\ UNCHANGED cache_vars
    \/ \E t \in DOMAIN procs : WatcherCheck(t) /\ UNCHANGED cache_vars
    \/ \E t \in DOMAIN procs, event \in LifecycleEvents :
          (Advertises(event) => adverts < MaxLiveAdverts) /\ WatcherRecv(t, event) /\ UNCHANGED cache_vars
    \/ \E t \in DOMAIN procs : WatcherClosed(t) /\ UNCHANGED cache_vars
    \/ \E t \in DOMAIN procs, ip \in IpLiterals : WatcherLookup(t, ip) /\ UNCHANGED cache_vars
    \/ \E t \in DOMAIN procs : WatcherStamp(t) /\ UNCHANGED cache_vars
    \/ \E t \in DOMAIN procs : WatcherInsert(t) /\ UNCHANGED cache_vars
    \/ \E t \in DOMAIN procs : TaskCancelled(t) /\ UNCHANGED cache_vars
    \/ \E t \in DOMAIN procs : ReaperSleep(t) /\ UNCHANGED cache_vars
    \/ \E t \in DOMAIN procs : ReaperTick(t) /\ UNCHANGED cache_vars
    \/ \E t \in DOMAIN procs : ReaperCheck(t) /\ UNCHANGED cache_vars
    \/ \E t \in DOMAIN procs : \E id \in DOMAIN devices : ReaperScan(t, id) /\ UNCHANGED cache_vars
    \/ \E t \in DOMAIN procs : ReaperScanned(t) /\ UNCHANGED cache_vars
    \/ \E t \in DOMAIN procs : \E id \in Range(procs[t].to_remove) : ReaperRemove(t, id) /\ UNCHANGED cache_vars
    \/ \E t \in DOMAIN procs : PollerSleep(t) /\ UNCHANGED cache_vars
    \/ \E t \in DOMAIN procs : PollerTick(t) /\ UNCHANGED cache_vars
    \/ \E t \in DOMAIN procs : PollerCheck(t) /\ UNCHANGED cache_vars
    \/ \E t \in DOMAIN procs, result \in LiveResults :
          adverts + SearchAdverts(result) <= MaxLiveAdverts /\ PollerRootSearch(t, result) /\ UNCHANGED cache_vars
    \/ \E t \in DOMAIN procs : PollerRootResponse(t) /\ UNCHANGED cache_vars
    \/ \E t \in DOMAIN procs, result \in LiveResults :
          adverts + SearchAdverts(result) <= MaxLiveAdverts /\ PollerRendererSearch(t, result) /\ UNCHANGED cache_vars
    \/ \E t \in DOMAIN procs : PollerRendererResponse(t) /\ UNCHANGED cache_vars
    \/ \E t \in DOMAIN procs : PollerUpsert(t) /\ UNCHANGED cache_vars
    \/ \E t \in DOMAIN procs : PollerInsert(t) /\ UNCHANGED cache_vars
    \/ Advance(301000, 60000) /\ UNCHANGED cache_vars

SpecLive ==
    /\ Init /\ [][NextLive]_vars
    /\ WF_vars(\E t \in DOMAIN procs : WatcherCheck(t) /\ UNCHANGED cache_vars)
    /\ WF_vars(\E t \in DOMAIN procs, ip \in IpLiterals : WatcherLookup(t, ip) /\ UNCHANGED cache_vars)
    /\ WF_vars(\E t \in DOMAIN procs : WatcherStamp(t) /\ UNCHANGED cache_vars)
    /\ WF_vars(\E t \in DOMAIN procs : WatcherInsert(t) /\ UNCHANGED cache_vars)
    /\ WF_vars(\E t \in DOMAIN procs : TaskCancelled(t) /\ UNCHANGED cache_vars)
    /\ WF_vars(\E t \in DOMAIN procs : ReaperSleep(t) /\ UNCHANGED cache_vars)
    /\ WF_vars(\E t \in DOMAIN procs : ReaperTick(t) /\ UNCHANGED cache_vars)
    /\ WF_vars(\E t \in DOMAIN procs : ReaperCheck(t) /\ UNCHANGED cache_vars)
    /\ WF_vars(\E t \in DOMAIN procs : \E id \in DOMAIN devices : ReaperScan(t, id) /\ UNCHANGED cache_vars)
    /\ WF_vars(\E t \in DOMAIN procs : ReaperScanned(t) /\ UNCHANGED cache_vars)
    /\ WF_vars(\E t \in DOMAIN procs : \E id \in Range(procs[t].to_remove) : ReaperRemove(t, id) /\ UNCHANGED cache_vars)
    /\ WF_vars(\E t \in DOMAIN procs : PollerSleep(t) /\ UNCHANGED cache_vars)
    /\ WF_vars(\E t \in DOMAIN procs : PollerTick(t) /\ UNCHANGED cache_vars)
    /\ WF_vars(\E t \in DOMAIN procs : PollerCheck(t) /\ UNCHANGED cache_vars)
    /\ WF_vars(\E t \in DOMAIN procs : PollerUpsert(t) /\ UNCHANGED cache_vars)
    /\ WF_vars(\E t \in DOMAIN procs : PollerInsert(t) /\ UNCHANGED cache_vars)

(***************************************************************************)
(* SpecRun with the lock of the running flag taken in steps: stop joins    *)
(* the queue of the lock and runs when the lock is granted, and a task's   *)
(* running.read().await returns its guard in a step of its own.  The       *)
(* promise of the lock and the scheduler: a task that holds a read guard   *)
(* is being polled and goes on, and a queued writer is granted a lock that *)
(* is free.                                                                *)
(***************************************************************************)
NextLock ==
    \/ \E dts \in StartInputs : starts = 0 /\ Start(dts, TRUE, 0) /\ UNCHANGED cache_vars
    \/ \E shutdown_ok \in BOOLEAN : Stop(shutdown_ok) /\ UNCHANGED cache_vars
    \/ \E t \in DOMAIN procs : WatcherCheck(t) /\ UNCHANGED cache_vars
    \/ \E t \in DOMAIN procs, event \in ServiceEvents : WatcherRecv(t, event) /\ UNCHANGED cache_vars
    \/ \E t \in DOMAIN procs : WatcherClosed(t) /\ UNCHANGED cache_vars
    \/ \E t \in DOMAIN procs, ip \in IpLiterals : WatcherLookup(t, ip) /\ UNCHANGED cache_vars
    \/ \E t \in DOMAIN procs : WatcherStamp(t) /\ UNCHANGED cache_vars
    \/ \E t \in DOMAIN procs : WatcherInsert(t) /\ UNCHANGED cache_vars
    \/ \E t \in DOMAIN procs : TaskCancelled(t) /\ UNCHANGED cache_vars
    \/ \E t \in DOMAIN procs : ReaperSleep(t) /\ UNCHANGED cache_vars
    \/ \E t \in DOMAIN procs : ReaperTick(t) /\ UNCHANGED cache_vars
    \/ \E t \in DOMAIN procs : ReaperCheck(t) /\ UNCHANGED cache_vars
    \/ \E t \in DOMAIN procs : \E id \in DOMAIN devices : ReaperScan(t, id) /\ UNCHANGED cache_vars
    \/ \E t \in DOMAIN procs : ReaperScanned(t) /\ UNCHANGED cache_vars
    \/ \E t \in DOMAIN procs : \E id \in Range(procs[t].to_remove) : ReaperRemove(t, id) /\ UNCHANGED cache_vars
    \/ \E t \in DOMAIN procs : PollerSleep(t) /\ UNCHANGED cache_vars
    \/ \E t \in DOMAIN procs : PollerTick(t) /\ UNCHANGED cache_vars
    \/ \E t \in DOMAIN procs : PollerCheck(t) /\ UNCHANGED cache_vars
    \/ \E t \in DOMAIN procs, result \in SearchResults : PollerRootSearch(t, result) /\ UNCHANGED cache_vars
    \/ \E t \in DOMAIN procs : PollerRootResponse(t) /\ UNCHANGED cache_vars
    \/ \E t \in DOMAIN procs, result \in SearchResults : PollerRendererSearch(t, result) /\ UNCHANGED cache_vars
    \/ \E t \in DOMAIN procs : PollerRendererResponse(t) /\ UNCHANGED cache_vars
    \/ \E t \in DOMAIN procs : PollerUpsert(t) /\ UNCHANGED cache_vars
    \/ \E t \in DOMAIN procs : PollerInsert(t) /\ UNCHANGED cache_vars
    \/ \E w \in TimeGrid, m \in MonoGrid : Advance(w, m) /\ UNCHANGED cache_vars
    \/ StopWait /\ UNCHANGED cache_vars
    \/ \E t \in DOMAIN procs : RunningRead(t) /\ UNCHANGED cache_vars

SpecLock ==
    /\ Init /\ [][NextLock]_vars
    /\ WF_vars(\E t \in DOMAIN procs :
                  /\ procs[t].guard
                  /\ (WatcherCheck(t) \/ ReaperCheck(t) \/ PollerCheck(t))
                  /\ UNCHANGED cache_vars)
    /\ WF_vars(\E shutdown_ok \in BOOLEAN :
                  ret = Waiting("stop") /\ Stop(shutdown_ok) /\ UNCHANGED cache_vars)

(***************************************************************************)
(* The reaper against a fine clock.  The coordinator is started once for   *)
(* one service and keeps running; the two clocks move together and visit   *)
(* every sweep deadline and two instants within the second before one, so  *)
(* the age of a record at a sweep can fall between two whole seconds.      *)
(* The tasks take their steps at any of these instants, a tick at its      *)
(* deadline or later.                                                      *)
(***************************************************************************)
ClockGrid ==
    {k * SweepIntervalSecs * MsPerSec : k \in 0..MaxSweeps}
        \cup {29250, (MaxSweeps - 1) * SweepIntervalSecs * MsPerSec + 29500}

ClockEvent ==
    [ kind |-> "resolved", fullname |-> "tv.", hostname |-> "livingroom",
      port |-> 8009, addresses |-> {"192.168.1.5"},
      properties |-> << <<"md", "Chromecast">> >> ]

NextClock ==
    \/ Start(<<Custom("_x._tcp.local.")>>, TRUE, 0) /\ UNCHANGED cache_vars
    \/ \E t \in DOMAIN procs : WatcherRecv(t, ClockEvent) /\ UNCHANGED cache_vars
    \/ \E t \in DOMAIN procs, ip \in IpLiterals : WatcherLookup(t, ip) /\ UNCHANGED cache_vars
    \/ \E t \in DOMAIN procs : WatcherStamp(t) /\ UNCHANGED cache_vars
    \/ \E t \in DOMAIN procs : WatcherInsert(t) /\ UNCHANGED cache_vars
    \/ \E t \in DOMAIN procs : ReaperSleep(t) /\ UNCHANGED cache_vars
    \/ \E t \in DOMAIN procs : ReaperTick(t) /\ UNCHANGED cache_vars
    \/ \E t \in DOMAIN procs : ReaperCheck(t) /\ UNCHANGED cache_vars
    \/ \E t \in DOMAIN procs : \E id \in DOMAIN devices : ReaperScan(t, id) /\ UNCHANGED cache_vars
    \/ \E t \in DOMAIN procs : ReaperScanned(t) /\ UNCHANGED cache_vars
    \/ \E t \in DOMAIN procs : \E id \in Range(procs[t].to_remove) : ReaperRemove(t, id) /\ UNCHANGED cache_vars
    \/ \E t \in ClockGrid : Advance(t, t) /\ UNCHANGED cache_vars

SpecClock == Init /\ [][NextClock]_vars

(***************************************************************************)
(* The lifecycle with several device types in one Start: two types that    *)
(* both need the poller, and one type listed twice.  A browse that fails   *)
(* for the second type leaves the first type's watcher spawned.  The       *)
(* poller and the reaper are spawned and aborted but take no step here.    *)
(***************************************************************************)
TypesInputs == { <<Upnp, Dlna>>, <<Chromecast, Chromecast>> }

TypesEvents ==
    { e \in ServiceEvents :
        \/ e.kind = "removed"
        \/ e.kind = "resolved" /\ e.addresses # {} }

NextTypes ==
    \/ \E dts \in TypesInputs : Start(dts, FALSE, 0) /\ UNCHANGED cache_vars
    \/ \E dts \in TypesInputs : \E fail_at \in 0..Len(dts) : Start(dts, TRUE, fail_at) /\ UNCHANGED cache_vars
    \/ \E shutdown_ok \in BOOLEAN : Stop(shutdown_ok) /\ UNCHANGED cache_vars
    \/ \E t \in DOMAIN procs : WatcherCheck(t) /\ UNCHANGED cache_vars
    \/ \E t \in DOMAIN procs, event \in TypesEvents : WatcherRecv(t, event) /\ UNCHANGED cache_vars
    \/ \E t \in DOMAIN procs : WatcherClosed(t) /\ UNCHANGED cache_vars
    \/ \E t \in DOMAIN procs, ip \in IpLiterals : WatcherLookup(t, ip) /\ UNCHANGED cache_vars
    \/ \E t \in DOMAIN procs : WatcherStamp(t) /\ UNCHANGED cache_vars
    \/ \E t \in DOMAIN procs : WatcherInsert(t) /\ UNCHANGED cache_vars
    \/ \E t \in DOMAIN procs : TaskCancelled(t) /\ UNCHANGED cache_vars

SpecTypes == Init /\ [][NextTypes]_vars

(***************************************************************************)
(* The poller and a watcher side by side: a type that needs the poller,    *)
(* and a custom service whose name begins like an SSDP id.  The searches   *)
(* answer with locations that carry a port and locations that leave it to  *)
(* the scheme.  The reaper is spawned and aborted but takes no step here,  *)
(* and the clock stands still: each poller takes its first tick.           *)
(***************************************************************************)
SsdpInputs == { <<Dlna>>, <<Custom("upnp:x._tcp.local.")>> }

SsdpResults ==
    { [failed |-> TRUE, responses |-> <<>>],
      [failed |-> FALSE, responses |-> <<HttpWithPort>>],
      [failed |-> FALSE, responses |-> <<HttpsNoPort>>],
      [failed |-> FALSE, responses |-> <<NamedHost, HttpNoPort>>] }

NextSsdp ==
    \/ \E dts \in SsdpInputs : Start(dts, FALSE, 0) /\ UNCHANGED cache_vars
    \/ \E dts \in SsdpInputs : \E fail_at \in 0..Len(dts) : Start(dts, TRUE, fail_at) /\ UNCHANGED cache_vars
    \/ \E shutdown_ok \in BOOLEAN : Stop(shutdown_ok) /\ UNCHANGED cache_vars
    \/ \E t \in DOMAIN procs : WatcherCheck(t) /\ UNCHANGED cache_vars
    \/ \E t \in DOMAIN procs, event \in TypesEvents : WatcherRecv(t, event) /\ UNCHANGED cache_vars
    \/ \E t \in DOMAIN procs : WatcherClosed(t) /\ UNCHANGED cache_vars
    \/ \E t \in DOMAIN procs, ip \in IpLiterals : WatcherLookup(t, ip) /\ UNCHANGED cache_vars
    \/ \E t \in DOMAIN procs : WatcherStamp(t) /\ UNCHANGED cache_vars
    \/ \E t \in DOMAIN procs : WatcherInsert(t) /\ UNCHANGED cache_vars
    \/ \E t \in DOMAIN procs : TaskCancelled(t) /\ UNCHANGED cache_vars
    \/ \E t \in DOMAIN procs : PollerSleep(t) /\ UNCHANGED cache_vars
    \/ \E t \in DOMAIN procs : PollerTick(t) /\ UNCHANGED cache_vars
    \/ \E t \in DOMAIN procs : PollerCheck(t) /\ UNCHANGED cache_vars
    \/ \E t \in DOMAIN procs, result \in SsdpResults : PollerRootSearch(t, result) /\ UNCHANGED cache_vars
    \/ \E t \in DOMAIN procs : PollerRootResponse(t) /\ UNCHANGED cache_vars
    \/ \E t \in DOMAIN procs, result \in SsdpResults : PollerRendererSearch(t, result) /\ UNCHANGED cache_vars
    \/ \E t \in DOMAIN procs : PollerRendererResponse(t) /\ UNCHANGED cache_vars
    \/ \E t \in DOMAIN procs : PollerUpsert(t) /\ UNCHANGED cache_vars
    \/ \E t \in DOMAIN procs : PollerInsert(t) /\ UNCHANGED cache_vars

SpecSsdp == Init /\ [][NextSsdp]_vars

(***************************************************************************)
(* The cache of one caller, from its construction on any of the           *)
(* directories: one call at a time; a file may fail to be created, a write *)
(* may be cut short at the larger limit, a sync may fail, and a file may   *)
(* fail to be removed.  With one caller and fewer items than the LRU       *)
(* holds, every indexed key is in the LRU, so a get that misses the LRU    *)
(* ends at the index.                                                      *)
(***************************************************************************)
CacheKeys == {Uuid(n) : n \in 1..MaxStores}

CachePaths ==
    {FilePath(k) : k \in CacheKeys \cup {LeftKey}}
        \cup {MetaPath(k) : k \in CacheKeys \cup {LeftKey}}

InitCache ==
    /\ DiscoveryNew
    /\ \E dir \in CacheDirs : with_config(dir)

CacheOutcomes == {o \in WriteOutcomes : o.kind # "cut" \/ o.limit = 102400}

NextCache ==
    \/ \E input \in StoreInputs : StoreCall(1, input)
    \/ EnsureCapacity(1)
    \/ HasItems(1)
    \/ EvictLru(1)
    \/ EvictKey(1)
    \/ \E ok \in BOOLEAN : EvictFile(1, ok)
    \/ EvictSize(1)
    \/ StorePut(1)
    \/ \E ok \in BOOLEAN : StoreCreate(1, ok)
    \/ \E outcome \in CacheOutcomes : StoreWrite(1, outcome)
    \/ \E ok \in BOOLEAN : StoreSync(1, ok)
    \/ StoreIndex(1)
    \/ StoreSize(1)
    \/ \E key \in CacheKeys \cup {LeftKey} : GetCall(1, key)
    \/ GetIndex(1)
    \/ \E key \in CacheKeys \cup {LeftKey} : RemoveCall(1, key)
    \/ RemoveIndex(1)
    \/ \E ok \in BOOLEAN : RemoveFile(1, ok)
    \/ RemoveSize(1)
    \/ ClearCall(1)
    \/ \E key \in CacheKeys : ClearIndex(1, key)
    \/ \E ok \in BOOLEAN : ClearReadDir(1, ok)
    \/ \E path \in CachePaths, ok \in BOOLEAN : ClearFile(1, path, ok)
    \/ ClearEntryErr(1)
    \/ ClearSize(1)

SpecCache == InitCache /\ [][NextCache]_vars

(***************************************************************************)
(* The cache shared by two callers: both store, the second one also        *)
(* clears, and their calls interleave piece by piece.  The directory is    *)
(* fresh, and the files are created, written and removed without failure.  *)
(***************************************************************************)
NextCacheRace ==
    \/ \E c \in Callers, input \in StoreInputs : StoreCall(c, input)
    \/ \E c \in Callers : EnsureCapacity(c)
    \/ \E c \in Callers : HasItems(c)
    \/ \E c \in Callers : EvictLru(c)
    \/ \E c \in Callers : EvictKey(c)
    \/ \E c \in Callers : EvictFile(c, TRUE)
    \/ \E c \in Callers : EvictSize(c)
    \/ \E c \in Callers : StorePut(c)
    \/ \E c \in Callers : StoreCreate(c, TRUE)
    \/ \E c \in Callers : StoreWrite(c, [kind |-> "written", limit |-> 0])
    \/ \E c \in Callers : StoreSync(c, TRUE)
    \/ \E c \in Callers : StoreIndex(c)
    \/ \E c \in Callers : StoreSize(c)
    \/ ClearCall(2)
    \/ \E key \in CacheKeys : ClearIndex(2, key)
    \/ \E ok \in BOOLEAN : ClearReadDir(2, ok)
    \/ \E path \in CachePaths : ClearFile(2, path, TRUE)
    \/ ClearEntryErr(2)
    \/ ClearSize(2)

SpecCacheRace == Init /\ [][NextCacheRace]_vars

(***************************************************************************)
(* The cache of one caller after MemoryCapacity stores of a small item:    *)
(* the LRU is full, so the next item put into it pushes the least recent   *)
(* one out of memory.  The first of those stores either went well or had   *)
(* its data file cut short at a limit; the stores made from here on are    *)
(* small and go well, so nothing has to be evicted.                        *)
(***************************************************************************)
Seed(i) == "seed-" \o ToString(i)

SeedInput ==
    [ content_type |-> Markdown(<<"dark">>), source |-> Url("http://h/n.md"),
      data |-> Bytes(1000, 7), mime_type |-> "text/markdown" ]

SeedKeys == {Seed(i) : i \in 1..MemoryCapacity}

SeedOutcomes == {[kind |-> "written", limit |-> 0], [kind |-> "cut", limit |-> 500]}

InitFull ==
    /\ DiscoveryNew
    /\ memory_cache = [i \in 1..MemoryCapacity |-> CachedContent(Seed(i), SeedInput)]
    /\ disk_cache = [k \in SeedKeys |-> FilePath(k)]
    /\ current_size = MemoryCapacity * SeedInput.data.len
    /\ \E first \in SeedOutcomes :
          files = [p \in {FilePath(k) : k \in SeedKeys} \cup {MetaPath(k) : k \in SeedKeys} |->
                     IF p = FilePath(Seed(1)) THEN WrittenData(SeedInput.data, first)
                     ELSE IF \E k \in SeedKeys : p = FilePath(k) THEN SeedInput.data
                     ELSE Metadata(CachedContent(CHOOSE k \in SeedKeys : p = MetaPath(k),
                                                 SeedInput))]
    /\ calls = [c \in Callers |-> NoCall]
    /\ cache_ret = CacheOk("store", Seed(MemoryCapacity), Seed(MemoryCapacity))
    /\ held = [k \in SeedKeys |-> SeedInput]
    /\ next_id = 0

FullKeys == {Seed(1), Seed(2), Uuid(1)}

NextFull ==
    \/ StoreCall(1, SeedInput)
    \/ EnsureCapacity(1)
    \/ StorePut(1)
    \/ StoreCreate(1, TRUE)
    \/ StoreWrite(1, [kind |-> "written", limit |-> 0])
    \/ StoreSync(1, TRUE)
    \/ StoreIndex(1)
    \/ StoreSize(1)
    \/ \E key \in FullKeys : GetCall(1, key)
    \/ GetIndex(1)
    \/ \E ok \in BOOLEAN : GetExists(1, ok)
    \/ GetRead(1)
    \/ GetPut(1)
    \/ \E key \in FullKeys : RemoveCall(1, key)
    \/ RemoveIndex(1)
    \/ \E ok \in BOOLEAN : RemoveFile(1, ok)
    \/ RemoveSize(1)

SpecCacheFull == InitFull /\ [][NextFull]_vars

(***************************************************************************)
(* Steps named in the properties below.                                    *)
(***************************************************************************)
\* the step is a call of Start
StartCall ==
    \E dts \in StartInputs : \E daemon_ok \in BOOLEAN : \E fail_at \in 0..Len(dts) :
        Start(dts, daemon_ok, fail_at)

\* the step is a call of Stop
StopCall == \E shutdown_ok \in BOOLEAN : Stop(shutdown_ok)

\* the id watcher t is looking up
LookupId(t) == MdnsId(procs[t].device_type, procs[t].ev.hostname, procs[t].ev.port)

\* the step is watcher t finding its id in the registry
MdnsHit(t) ==
    /\ procs[t].kind = "mdns" /\ procs[t].pc = "lookup"
    /\ LookupId(t) \in DOMAIN devices
    /\ \E ip \in IpLiterals : WatcherLookup(t, ip)

\* the step is the poller t finding the id of its next scanned device
SsdpHit(t) ==
    /\ procs[t].kind = "ssdp" /\ procs[t].pc = "upsert"
    /\ Head(procs[t].discovered).id \in DOMAIN devices
    /\ PollerUpsert(t)

\* the device types queried
QueryTypes ==
    { Chromecast, FireTv, AirPlay, Dlna, Upnp, Miracast,
      Custom("_x._tcp.local."), Custom("_dlna._tcp.local."), Custom("") }

(***************************************************************************)
(* C1: Start while Running returns success and changes nothing: no task is *)
(* spawned, and the task handles, the daemon handle, the flag and the      *)
(* registry are as before, whatever device types are passed.               *)
(***************************************************************************)
C1_StartWhileRunningIsNoop ==
    [][ (discovery_running /\ StartCall) =>
            /\ ret' = Ok("start")
            /\ UNCHANGED <<devices, mdns, discovery_running, tasks, procs>> ]_vars

\* a second Start was made while the first one's daemon was running, with
\* tasks at work and a record in the registry
C1_Witness ==
    /\ discovery_running /\ starts = 2 /\ mdns = 1
    /\ ret = Ok("start")
    /\ devices # <<>>
    /\ Len(tasks) = 3

(***************************************************************************)
(* C2: the registry holds one record per id (each record sits under its    *)
(* own id), and an upsert that finds its id present, in an mDNS watcher or *)
(* in the SSDP poller, leaves the set of records' ids as it was and        *)
(* advances that record's last_seen to the current time: the new value is  *)
(* the clock's reading and is not earlier than the old one.                *)
(***************************************************************************)
C2_HitPost(id) ==
    /\ DOMAIN devices' = DOMAIN devices
    /\ Cardinality(DOMAIN devices') = Cardinality(DOMAIN devices)
    /\ devices'[id].last_seen = now
    /\ devices'[id].last_seen >= devices[id].last_seen

C2_DedupAdvancesLastSeen ==
    /\ [](\A id \in DOMAIN devices : devices[id].id = id)
    /\ [][ \A t \in DOMAIN procs :
              /\ MdnsHit(t) => C2_HitPost(LookupId(t))
              /\ SsdpHit(t) => C2_HitPost(Head(procs[t].discovered).id) ]_vars

(***************************************************************************)
(* C3: an upsert that finds its id present changes last_seen of that       *)
(* record and nothing else in the registry: capabilities, discovered_at,   *)
(* name, device_type, ip, port and metadata stay as they were, also when   *)
(* the advertisement carries another address or other TXT records.         *)
(***************************************************************************)
C3_HitFrame(id) ==
    devices' = [devices EXCEPT ![id] =
                   [devices[id] EXCEPT !.last_seen = devices'[id].last_seen]]

C3_ReadvertisementChangesOnlyLastSeen ==
    [][ \A t \in DOMAIN procs :
           /\ MdnsHit(t) => C3_HitFrame(LookupId(t))
           /\ SsdpHit(t) => C3_HitFrame(Head(procs[t].discovered).id) ]_vars

\* a watcher is about to upsert an advertisement whose address and TXT
\* records both differ from the record it will find, which is older
C3_Witness ==
    \E t \in DOMAIN procs :
        /\ procs[t].kind = "mdns" /\ procs[t].pc = "lookup"
        /\ LookupId(t) \in DOMAIN devices
        /\ devices[LookupId(t)].ip \notin procs[t].ev.addresses
        /\ devices[LookupId(t)].metadata # TxtMetadata(procs[t].ev.properties)
        /\ devices[LookupId(t)].discovered_at < now

(***************************************************************************)
(* C4: whenever a record leaves the registry, its age (now - last_seen)    *)
(* at that moment exceeds the stale timeout of 300 s.                      *)
(***************************************************************************)
C4_RemovedOnlyWhenStale ==
    [][ \A id \in DOMAIN devices :
           id \notin DOMAIN devices' =>
               now - devices[id].last_seen > StaleTimeoutSecs * MsPerSec ]_vars

(***************************************************************************)
(* C5: while the coordinator is running and the reaper has no sweep due,   *)
(* no record is older than the stale timeout plus one sweep interval       *)
(* (330 s): by then the reaper has removed it.  This is for the runs in    *)
(* which the clocks are steady: the wall clock has kept step with the      *)
(* monotonic one and has moved only while every task was suspended with no *)
(* tick overdue.                                                           *)
(***************************************************************************)
C5_RemovedWithinBound ==
    \A t \in DOMAIN procs :
        ( /\ steady
          /\ discovery_running
          /\ procs[t].kind = "reaper" /\ procs[t].pc = "tick"
          /\ procs[t].next_tick > mono )
        => \A id \in DOMAIN devices :
              now - devices[id].last_seen
                 <= (StaleTimeoutSecs + SweepIntervalSecs) * MsPerSec

(***************************************************************************)
(* C6: Stop leaves the registry as it was (get_devices after the call is   *)
(* get_devices before it), and while the coordinator stays stopped every   *)
(* record stays retrievable by its id.                                     *)
(***************************************************************************)
C6_StopKeepsRegistry ==
    [][ /\ (discovery_running /\ StopCall) => get_devices' = get_devices
        /\ (~discovery_running /\ ~discovery_running') =>
              \A id \in DOMAIN devices : get_device(id)' # <<>> ]_vars

(***************************************************************************)
(* C7: once Stop has returned, and until the coordinator is started again, *)
(* no task changes the registry: no insert, no last_seen update, no removal.*)
(***************************************************************************)
C7_NoMutationAfterStop ==
    [][ (~discovery_running /\ ret = Ok("stop")) => devices' = devices ]_vars

(***************************************************************************)
(* C8: in every reachable state, for every device type t, custom ones      *)
(* included, get_devices_by_type(t) is exactly the records of get_devices  *)
(* whose device_type is t.                                                 *)
(***************************************************************************)
C8_TypeFilter ==
    \A ty \in QueryTypes :
        get_devices_by_type(ty) = {d \in get_devices : d.device_type = ty}

\* the registry holds records of two types, one of them a custom type
C8_Witness ==
    /\ get_devices_by_type(Custom("_x._tcp.local.")) # {}
    /\ get_devices_by_type(Dlna) # {}
    /\ Cardinality(get_devices) = 2

(***************************************************************************)
(* C9: is_running is false initially; it becomes true only in a Start that *)
(* returns success, and false only in a Stop; a Start on a stopped         *)
(* coordinator whose daemon and browses succeed, the first or one after a  *)
(* Stop, sets it and holds the handles of a fresh task set: one watcher    *)
(* per type, the poller if needed, and the reaper, none of them aborted.   *)
(***************************************************************************)
C9_FreshTasks(dts) ==
    /\ Len(tasks') = Len(dts) + (IF needs_upnp(dts) THEN 1 ELSE 0) + 1
    /\ \A i \in DOMAIN tasks' :
          /\ tasks'[i] \in DOMAIN procs'
          /\ ~procs'[tasks'[i]].aborted
          /\ procs'[tasks'[i]].pc \in {"recv", "tick"}
          /\ procs'[tasks'[i]].kind =
                IF i <= Len(dts) THEN "mdns"
                ELSE IF i = Len(tasks') THEN "reaper" ELSE "ssdp"
    /\ mdns' # 0 /\ mdns' # mdns

C9_Lifecycle ==
    /\ ~is_running
    /\ [][ /\ (~is_running /\ is_running') => (StartCall /\ ret' = Ok("start"))
           /\ (is_running /\ ~is_running') => StopCall
           /\ \A dts \in StartInputs :
                 (~is_running /\ Start(dts, TRUE, 0)) =>
                     (is_running' /\ ret' = Ok("start") /\ C9_FreshTasks(dts)) ]_vars

\* running again on a second daemon, with a record of the first run still
\* in the registry: there was a Stop in between
C9_Witness ==
    /\ is_running /\ mdns = 2 /\ starts = 2
    /\ devices # <<>>
    /\ \A i \in DOMAIN tasks : ~Ended(procs[tasks[i]])

(***************************************************************************)
(* C10: a Start whose daemon cannot be created returns an error and leaves *)
(* the coordinator stopped: the flag is false, no handle is held, no daemon*)
(* is held, no task has been added, and the registry is unchanged.         *)
(***************************************************************************)
C10_DaemonFailureAbortsStart ==
    [][ \A dts \in StartInputs :
           (~discovery_running /\ Start(dts, FALSE, 0)) =>
               /\ ret' = Err("start")
               /\ ~discovery_running'
               /\ tasks' = <<>>
               /\ mdns' = 0
               /\ Len(procs') <= Len(procs)
               /\ \A i \in DOMAIN procs' : procs'[i].aborted
               /\ devices' = devices ]_vars

\* a Start has just failed on a coordinator that had run before: a record
\* of that run is in the registry
C10_Witness ==
    /\ ret = Err("start") /\ ~discovery_running
    /\ tasks = <<>> /\ mdns = 0
    /\ devices # <<>>

(***************************************************************************)
(* C11: a Start whose browse fails for one of the types returns an error   *)
(* and leaves the coordinator stopped: no daemon is held, the registry is  *)
(* unchanged, no poller and no reaper has been spawned, and the handles    *)
(* held are of watchers that have not read the flag.  Such a watcher only  *)
(* ever exists while the flag is false, and the one step it takes ends it  *)
(* without touching the registry.                                          *)
(***************************************************************************)
C11_BrowseFailureAbortsStart ==
    /\ [](\A i \in DOMAIN procs : Unstarted(procs[i]) => ~discovery_running)
    /\ [][ /\ \A dts \in TypesInputs : \A fail_at \in 1..Len(dts) :
                (~discovery_running /\ Start(dts, TRUE, fail_at)) =>
                    /\ ret' = Err("start")
                    /\ ~discovery_running'
                    /\ mdns' = 0
                    /\ devices' = devices
                    /\ Len(tasks') = fail_at - 1
                    /\ \A j \in DOMAIN tasks' : Unstarted(procs'[tasks'[j]])
                    /\ \A i \in DOMAIN procs' :
                          procs'[i].kind \in {"ssdp", "reaper"} => procs'[i].aborted
           /\ \A t \in DOMAIN procs :
                (Unstarted(procs[t]) /\ WatcherCheck(t)) =>
                    /\ devices' = devices
                    /\ t \in DOMAIN procs' /\ procs'[t].pc = "done" ]_vars

\* the browse of the second type failed on a coordinator that had run
\* before, and the watcher spawned for the first type has ended
C11_Witness ==
    /\ ret = Err("start") /\ ~discovery_running /\ mdns = 0
    /\ Len(tasks) = 1
    /\ procs[tasks[1]].kind = "mdns" /\ procs[tasks[1]].pc = "done"
    /\ devices # <<>>

(***************************************************************************)
(* C12: a Stop made while running ends stopped, whether it returns success *)
(* or the shutdown error: the flag is false, no handle is left in the task *)
(* set, the daemon handle is released, and every task that has not ended   *)
(* has been aborted.                                                       *)
(***************************************************************************)
C12_StopEndsStopped ==
    [][ \A shutdown_ok \in BOOLEAN :
           (discovery_running /\ Stop(shutdown_ok)) =>
               /\ ~is_running'
               /\ tasks' = <<>>
               /\ mdns' = 0
               /\ ret' = IF shutdown_ok THEN Ok("stop") ELSE Err("stop")
               /\ \A i \in DOMAIN procs' : procs'[i].aborted ]_vars

\* Stop has reported the shutdown error while a task was in the middle of
\* its work: the coordinator is stopped and the task is marked
C12_Witness ==
    /\ ret = Err("stop")
    /\ ~is_running /\ tasks = <<>> /\ mdns = 0
    /\ \E i \in DOMAIN procs : procs[i].aborted /\ ~Ended(procs[i])

(***************************************************************************)
(* C13: Stop on a stopped coordinator returns success and changes nothing: *)
(* the flag stays false and the registry, the task set (also when it holds *)
(* the handles a failed Start left), the tasks and the daemon handle are   *)
(* as before.                                                              *)
(***************************************************************************)
C13_StopWhileStoppedIsNoop ==
    [][ \A shutdown_ok \in BOOLEAN :
           (~discovery_running /\ Stop(shutdown_ok)) =>
               /\ ret' = Ok("stop")
               /\ UNCHANGED <<devices, mdns, discovery_running, tasks, procs>> ]_vars

\* Stop has returned on a stopped coordinator whose task set still holds
\* the handle a failed Start left, with a record in the registry
C13_Witness ==
    /\ ret = Ok("stop")
    /\ ~discovery_running
    /\ tasks # <<>>
    /\ devices # <<>>

(***************************************************************************)
(* C14: a successful Start spawns exactly one reaper and, when Upnp or     *)
(* Dlna is among the types, exactly one SSDP poller (none otherwise); and  *)
(* in every reachable state at most one reaper and at most one poller have *)
(* not ended.                                                              *)
(***************************************************************************)
LiveOfKind(kind) == {i \in DOMAIN procs : procs[i].kind = kind /\ ~Ended(procs[i])}

C14_SpawnedOfKind(kind) == {j \in DOMAIN tasks' : procs'[tasks'[j]].kind = kind}

C14_OneReaperOnePoller ==
    /\ [](Cardinality(LiveOfKind("reaper")) <= 1 /\ Cardinality(LiveOfKind("ssdp")) <= 1)
    /\ [][ \A dts \in StartInputs :
              (~discovery_running /\ Start(dts, TRUE, 0)) =>
                  /\ Cardinality(C14_SpawnedOfKind("reaper")) = 1
                  /\ Cardinality(C14_SpawnedOfKind("ssdp")) =
                        IF needs_upnp(dts) THEN 1 ELSE 0 ]_vars

(***************************************************************************)
(* C15: the watchers whose handles the coordinator holds browse pairwise   *)
(* different service names, also when Start was given the same device type *)
(* more than once.                                                         *)
(***************************************************************************)
C15_OneWatcherPerService ==
    \A i \in DOMAIN tasks : \A j \in DOMAIN tasks :
        ( /\ i # j
          /\ procs[tasks[i]].kind = "mdns" /\ ~Ended(procs[tasks[i]])
          /\ procs[tasks[j]].kind = "mdns" /\ ~Ended(procs[tasks[j]]) )
        => to_mdns_service(procs[tasks[i]].device_type)
              # to_mdns_service(procs[tasks[j]].device_type)

(***************************************************************************)
(* C16: the capabilities of a record are a function of its device type:    *)
(* any two records of the same type have the same capabilities, whichever  *)
(* task created them; a Chromecast record has the cast profile and a       *)
(* record of a custom type has the default profile.                        *)
(***************************************************************************)
C16_CapabilitiesByType ==
    /\ \A a \in DOMAIN devices : \A b \in DOMAIN devices :
          devices[a].device_type = devices[b].device_type
             => devices[a].capabilities = devices[b].capabilities
    /\ \A a \in DOMAIN devices :
          /\ devices[a].device_type = Chromecast =>
                devices[a].capabilities =
                    [ can_video |-> TRUE, can_audio |-> TRUE, can_image |-> TRUE,
                      can_mirror |-> TRUE,
                      supported_codecs |-> <<"h264", "vp8", "vp9", "aac", "opus">>,
                      max_resolution |-> <<"4K">>,
                      protocols |-> <<"cast">> ]
          /\ devices[a].device_type[1] = "Custom" =>
                devices[a].capabilities = DefaultCapabilities

(***************************************************************************)
(* C17: in every reachable state every record of the registry has          *)
(* discovered_at <= last_seen.                                             *)
(***************************************************************************)
C17_DiscoveredBeforeLastSeen ==
    \A id \in DOMAIN devices : devices[id].discovered_at <= devices[id].last_seen

(***************************************************************************)
(* C18: DeviceType and the service name map to each other in both          *)
(* directions: for the device type t of every watcher,                     *)
(* from_service_type(to_mdns_service(t)) = t, and for the service name s   *)
(* it browses, to_mdns_service(from_service_type(s)) = s.                  *)
(***************************************************************************)
C18_ServiceRoundTrip ==
    \A i \in DOMAIN procs :
        procs[i].kind = "mdns" =>
            LET t == procs[i].device_type
                s == to_mdns_service(t)
            IN /\ from_service_type(to_mdns_service(t)) = t
               /\ to_mdns_service(from_service_type(s)) = s

(***************************************************************************)
(* C19: Stop always returns.  No task that is suspended in a wait (for the *)
(* next event, for an SSDP search or its next response, for the next tick) *)
(* holds a read guard of the running flag, and a call of Stop that has     *)
(* joined the queue of the flag's lock returns, Ok or Err, whatever the    *)
(* tasks are doing and whether or not any of them ever finishes.           *)
(***************************************************************************)
C19_StopAlwaysReturns ==
    /\ [](\A i \in DOMAIN procs : procs[i].pc \in IdlePcs => ~procs[i].guard)
    /\ (ret = Waiting("stop")) ~> (ret \in {Ok("stop"), Err("stop")})

\* Stop has been called and waits for the lock behind a task that holds a
\* read guard, while a watcher is blocked in recv_async and the poller is
\* inside a search or a tick wait
C19_Witness ==
    /\ ret = Waiting("stop")
    /\ discovery_running
    /\ \E i \in DOMAIN procs : procs[i].guard
    /\ \E i \in DOMAIN procs :
          procs[i].kind = "mdns" /\ procs[i].pc = "recv" /\ ~procs[i].aborted
    /\ \E i \in DOMAIN procs :
          /\ procs[i].kind = "ssdp" /\ ~procs[i].aborted
          /\ procs[i].pc \in {"tick", "scan_root", "root_next", "scan_renderer", "renderer_next"}

(***************************************************************************)
(* C20: a "service removed" event leaves the registry as it is, and an id  *)
(* leaves the registry only in a removal step of a reaper's sweep: never   *)
(* in a step of a watcher or of the poller, nor in Start or Stop.          *)
(***************************************************************************)
C20_OnlyReaperRemoves ==
    [][ /\ \A t \in DOMAIN procs : \A event \in ServiceEvents :
              (event.kind = "removed" /\ WatcherRecv(t, event)) => devices' = devices
        /\ (DOMAIN devices \ DOMAIN devices' # {}) =>
              \E t \in DOMAIN procs : \E id \in DOMAIN devices :
                  procs[t].kind = "reaper" /\ ReaperRemove(t, id) ]_vars

\* a running watcher waits for its next event while the record "tv" of its
\* type is in the registry: a "service removed" event for "tv." taken here
\* leaves this very state, the record still in the registry
C20_Witness ==
    /\ discovery_running
    /\ \E t \in DOMAIN procs :
          /\ procs[t].kind = "mdns" /\ procs[t].pc = "recv" /\ ~procs[t].aborted
          /\ t \in Range(tasks)
          /\ \E event \in ServiceEvents :
                /\ event.kind = "removed"
                /\ \E id \in DOMAIN devices :
                      /\ devices[id].device_type = procs[t].device_type
                      /\ devices[id].name = trim_end_dots(event.fullname)

(***************************************************************************)
(* C21: a resolved event that carries no address is skipped: the step      *)
(* leaves the registry as it is (no record added, no last_seen changed)    *)
(* and the watcher has not ended; a watcher that is not aborted is waiting *)
(* for the next event again.                                               *)
(***************************************************************************)
C21_AddresslessResolutionSkipped ==
    [][ \A t \in DOMAIN procs : \A event \in ResolvedEvents :
           (event.addresses = {} /\ WatcherRecv(t, event)) =>
               /\ devices' = devices
               /\ t \in DOMAIN procs' /\ ~Ended(procs'[t])
               /\ ~procs[t].aborted => procs'[t].pc = "recv" ]_vars

\* a running watcher waits for its next event while the record of its
\* service, last seen in an earlier run, is in the registry: a resolution
\* without an address taken here leaves this very state
C21_Witness ==
    /\ discovery_running
    /\ \E t \in DOMAIN procs :
          /\ procs[t].kind = "mdns" /\ procs[t].pc = "recv" /\ ~procs[t].aborted
          /\ \E id \in DOMAIN devices :
                /\ devices[id].device_type = procs[t].device_type
                /\ devices[id].last_seen < now

(***************************************************************************)
(* C22: the upsert is atomic per id: no step replaces discovered_at,       *)
(* metadata or capabilities of a record that is in the registry, so of two *)
(* tasks that take in advertisements of the same absent id only one        *)
(* inserts.                                                                *)
(***************************************************************************)
C22_UpsertAtomic ==
    [][ \A id \in DOMAIN devices :
           id \in DOMAIN devices' =>
               /\ devices'[id].discovered_at = devices[id].discovered_at
               /\ devices'[id].metadata = devices[id].metadata
               /\ devices'[id].capabilities = devices[id].capabilities ]_vars

(***************************************************************************)
(* C23: every record a reader can obtain, through get_devices,             *)
(* get_devices_by_type or get_device, is complete: it carries the          *)
(* capabilities of its device type as the watcher resolves them and the    *)
(* metadata of the TXT records of an advertisement, never the bare record  *)
(* of DiscoveredDevice::new.                                               *)
(***************************************************************************)
C23_Complete(d) ==
    /\ d.capabilities = MdnsCapabilities(d.device_type)
    /\ \E event \in TypesEvents :
          event.kind = "resolved" /\ d.metadata = TxtMetadata(event.properties)
    /\ d.metadata # <<>>

C23_NoPartialRecord ==
    /\ \A d \in get_devices : C23_Complete(d)
    /\ \A ty \in QueryTypes : \A d \in get_devices_by_type(ty) : C23_Complete(d)
    /\ \A id \in DOMAIN devices : C23_Complete(get_device(id)[1])

\* a Chromecast record is visible, with the cast profile and its metadata
C23_Witness ==
    \E d \in get_devices_by_type(Chromecast) :
        /\ d.capabilities.protocols = <<"cast">>
        /\ d.capabilities.can_mirror
        /\ d.metadata # <<>>

(***************************************************************************)
(* C24: an SSDP tick never ends the poller.  No step of the scan changes   *)
(* the registry or ends the task.  A search that fails is passed over, one *)
(* that answers hands over its stream; each response is taken in turn, a   *)
(* usable one adding one device to the scan's result and any other one     *)
(* nothing; after the root search, failed or drained, the renderer search  *)
(* follows; and when the tick found nothing the poller is back at the top  *)
(* of its loop, at interval.tick() for its next tick, else it goes on to   *)
(* upsert the result.                                                      *)
(***************************************************************************)
C24_AfterScan(t) ==
    procs'[t].pc = IF procs[t].discovered = <<>> THEN "loop" ELSE "upsert"

C24_Taken(t) ==
    LET r == Head(procs[t].stream)
        n == Len(procs[t].discovered)
    IN /\ procs'[t].stream = Tail(procs[t].stream)
       /\ procs'[t].pc = procs[t].pc
       /\ Len(procs'[t].discovered) = n + (IF ResponseUsable(r) THEN 1 ELSE 0)
       /\ SubSeq(procs'[t].discovered, 1, n) = procs[t].discovered

C24_SsdpTickNeverFatal ==
    [][ \A t \in DOMAIN procs :
           /\ \A result \in SearchResults \cup SsdpResults :
                 /\ PollerRootSearch(t, result) =>
                       /\ devices' = devices
                       /\ t \in DOMAIN procs'
                       /\ procs'[t].discovered = procs[t].discovered
                       /\ IF result.failed THEN procs'[t].pc = "scan_renderer"
                          ELSE /\ procs'[t].pc = "root_next"
                               /\ procs'[t].stream = result.responses
                 /\ PollerRendererSearch(t, result) =>
                       /\ devices' = devices
                       /\ t \in DOMAIN procs'
                       /\ procs'[t].discovered = procs[t].discovered
                       /\ IF result.failed THEN C24_AfterScan(t)
                          ELSE /\ procs'[t].pc = "renderer_next"
                               /\ procs'[t].stream = result.responses
           /\ PollerRootResponse(t) =>
                 /\ devices' = devices
                 /\ t \in DOMAIN procs'
                 /\ IF procs[t].stream = <<>>
                    THEN /\ procs'[t].pc = "scan_renderer"
                         /\ procs'[t].discovered = procs[t].discovered
                    ELSE C24_Taken(t)
           /\ PollerRendererResponse(t) =>
                 /\ devices' = devices
                 /\ t \in DOMAIN procs'
                 /\ IF procs[t].stream = <<>>
                    THEN /\ C24_AfterScan(t)
                         /\ procs'[t].discovered = procs[t].discovered
                    ELSE C24_Taken(t) ]_vars

\* the first tick of a running poller is over, its searches found nothing:
\* the registry is empty and the poller waits for the next tick
C24_Witness ==
    /\ discovery_running
    /\ devices = <<>> /\ adverts = 0
    /\ \E t \in DOMAIN procs :
          /\ procs[t].kind = "ssdp" /\ procs[t].pc = "tick"
          /\ procs[t].next_tick = PollIntervalSecs * MsPerSec

(***************************************************************************)
(* C25: the records the SSDP poller makes.  A device scanned from a        *)
(* root-device response has id "upnp:<ip>:<port>" and type Upnp, one from  *)
(* a MediaRenderer response id "dlna:<ip>:<port>" and type Dlna, the port  *)
(* being the location's explicit port, else 443 for https and 80 for any   *)
(* other scheme.                                                           *)
(***************************************************************************)
C25_Port(url) ==
    IF url.port # <<>> THEN url.port[1]
    ELSE IF url.scheme = "https" THEN 443 ELSE 80

C25_HasPrefix(id, prefix) ==
    Len(id) >= Len(prefix) /\ SubSeq(id, 1, Len(prefix)) = prefix

\* the scanned devices `found` are what the response at the head of the
\* stream yields under the prefix and the type given
C25_Scanned(found, stream, prefix, ty) ==
    \A i \in DOMAIN found :
        LET d == found[i]
            r == Head(stream)
        IN /\ d.id = prefix \o d.ip \o ":" \o ToString(d.port)
           /\ d.device_type = ty
           /\ stream # <<>>
           /\ r.ok /\ r.url.parsed /\ r.url.host = <<d.ip>>
           /\ d.port = C25_Port(r.url)

C25_ScanStep ==
    \A t \in DOMAIN procs :
        LET n == Len(procs[t].discovered)
            all == procs'[t].discovered
        IN /\ PollerRootResponse(t) =>
                 C25_Scanned(SubSeq(all, n + 1, Len(all)), procs[t].stream, "upnp:", Upnp)
           /\ PollerRendererResponse(t) =>
                 C25_Scanned(SubSeq(all, n + 1, Len(all)), procs[t].stream, "dlna:", Dlna)

\* C25 as claimed: ..., so every record whose id starts with "upnp:" has
\* type Upnp and every record whose id starts with "dlna:" has type Dlna
C25_PrefixTellsType ==
    /\ [][C25_ScanStep]_vars
    /\ [](\A id \in DOMAIN devices :
             /\ C25_HasPrefix(id, "upnp:") => devices[id].device_type = Upnp
             /\ C25_HasPrefix(id, "dlna:") => devices[id].device_type = Dlna)

\* C25 as amended: ..., so every record whose id starts with "upnp:" has
\* type Upnp, and every record whose id starts with "dlna:" has type Dlna,
\* unless it is the record of a custom service whose name starts so
C25_PrefixTellsTypeButCustom ==
    /\ [][C25_ScanStep]_vars
    /\ [](\A id \in DOMAIN devices :
             LET ty == devices[id].device_type
                 custom(prefix) == ty[1] = "Custom" /\ C25_HasPrefix(ty[2], prefix)
             IN /\ C25_HasPrefix(id, "upnp:") => ty = Upnp \/ custom("upnp:")
                /\ C25_HasPrefix(id, "dlna:") => ty = Dlna \/ custom("dlna:"))

\* the registry holds a renderer whose location left the port to https, and
\* a root device whose location left it to http
C25_Witness ==
    /\ "dlna:192.168.1.7:443" \in DOMAIN devices
    /\ devices["dlna:192.168.1.7:443"].port = 443
    /\ "upnp:192.168.1.7:80" \in DOMAIN devices
    /\ devices["upnp:192.168.1.7:80"].device_type = Upnp

(***************************************************************************)
(* C26: a watcher leaves its loop when its channel is closed or when the   *)
(* coordinator has been stopped (the flag reads false, or the task has     *)
(* been aborted), and for no event it receives; and once Stop has been     *)
(* called every task of that run eventually terminates: Stop leaves each   *)
(* of them ended or aborted, no aborted task lives for ever, and a         *)
(* coordinator that stays stopped ends up with no task alive.              *)
(***************************************************************************)
\* task t takes a step of handle_mdns_events
C26_WatcherStep(t) ==
    \/ WatcherCheck(t)
    \/ \E event \in ServiceEvents : WatcherRecv(t, event)
    \/ WatcherClosed(t)
    \/ \E ip \in IpLiterals : WatcherLookup(t, ip)
    \/ WatcherStamp(t)
    \/ WatcherInsert(t)
    \/ procs[t].kind = "mdns" /\ TaskCancelled(t)

\* the step of task t ended it
C26_Left(t) == Len(procs') < Len(procs) \/ Ended(procs'[t])

C26_AbortedLive(i) == procs[i].aborted /\ ~Ended(procs[i])

C26_WatcherExits ==
    /\ [][ \A t \in DOMAIN procs :
             /\ \A event \in ServiceEvents :
                   (WatcherRecv(t, event) /\ ~procs[t].aborted) => ~C26_Left(t)
             /\ (C26_WatcherStep(t) /\ C26_Left(t)) =>
                   \/ WatcherClosed(t)
                   \/ ~discovery_running
                   \/ procs[t].aborted ]_vars
    /\ [][ (StopCall /\ discovery_running) =>
              \A i \in DOMAIN procs' : Ended(procs'[i]) \/ procs'[i].aborted ]_vars
    /\ (\E i \in DOMAIN procs : C26_AbortedLive(i))
          ~> (\A i \in DOMAIN procs : ~C26_AbortedLive(i))
    /\ (~discovery_running)
          ~> (discovery_running \/ \A i \in DOMAIN procs : Ended(procs[i]))

\* Stop has been called and the coordinator started again while a reaper or
\* poller of the first run was at work: aborted, it is back at the top of
\* its loop with a tick that is overdue, and goes on to read the flag
C26_Witness ==
    /\ discovery_running /\ starts = 2
    /\ \E i \in DOMAIN procs :
          /\ C26_AbortedLive(i) /\ i \notin Range(tasks)
          /\ procs[i].kind \in {"ssdp", "reaper"}
          /\ procs[i].pc = "loop" /\ mono >= procs[i].next_tick

(***************************************************************************)
(* C27: the cache is bounded.  Whatever store, get, remove and clear calls *)
(* have been made, interleaved store calls of two callers included, the    *)
(* tracked total size is at most the configured maximum.                   *)
(***************************************************************************)
C27_CacheBounded == stats.total_size_bytes <= stats.max_size_bytes

(***************************************************************************)
(* C28: a store call that returns an error leaves the cache as the call    *)
(* found it: the same keys are indexed, the item counts and the tracked    *)
(* size are what they were, and get does not return the new item.          *)
(***************************************************************************)
C28_FailedStoreChangesNothing ==
    [][ \A c \in Callers :
           ( /\ calls[c] # NoCall /\ calls[c].op = "store"
             /\ calls'[c] = NoCall
             /\ ~cache_ret'.ok ) =>
               /\ DOMAIN disk_cache' = calls[c].entry.keys
               /\ stats' = calls[c].entry.stats
               /\ \A id \in {calls[c].id} : get_value(id)'.value = <<>> ]_vars

(***************************************************************************)
(* C29: between calls, the tracked total size is the sum of the sizes of   *)
(* the items held, that is of the indexed keys, whether or not they are    *)
(* still in the in-memory LRU.                                             *)
(***************************************************************************)
\* the size of the item indexed under key k: the length of what was stored
C29_ItemSize(k) == held[k].data.len

RECURSIVE C29_Sum(_)
C29_Sum(sizes) ==
    IF sizes = {} THEN 0
    ELSE LET s == CHOOSE x \in sizes : TRUE
         IN s * Cardinality({k \in DOMAIN disk_cache : C29_ItemSize(k) = s})
              + C29_Sum(sizes \ {s})

C29_SizeIsSumOfHeld ==
    Quiescent =>
        stats.total_size_bytes =
            C29_Sum({C29_ItemSize(k) : k \in DOMAIN disk_cache})

(***************************************************************************)
(* C30: the round trip.  A get that has returned for an id that store      *)
(* returned and that is still indexed has yielded the item, with the bytes,*)
(* the mime type and the size that were stored, from the LRU or rebuilt    *)
(* from the files; and once remove(id) has returned, get(id) yields none.  *)
(***************************************************************************)
C30_RoundTrip ==
    /\ ( /\ Quiescent
         /\ cache_ret.op = "get"
         /\ cache_ret.key \in DOMAIN held
         /\ cache_ret.key \in DOMAIN disk_cache ) =>
            /\ cache_ret.ok
            /\ cache_ret.value # <<>>
            /\ cache_ret.value[1].data = held[cache_ret.key].data
            /\ cache_ret.value[1].mime_type = held[cache_ret.key].mime_type
            /\ cache_ret.value[1].size = held[cache_ret.key].data.len
    /\ (Quiescent /\ cache_ret.op = "remove") =>
            get_value(cache_ret.key).value = <<>>

====
